---- MODULE Spec2Model ----
(***************************************************************************)
(* Retrieval pipeline of the RAG code tutor: format-aware chunking         *)
(* (auto_chunker.py), the chunk log (chunks.jsonl), index construction     *)
(* (build_index.py), retrieval with context assembly (rag_utils.py,        *)
(* rag_query.py), the inference call (llm_utils.py) and the button         *)
(* handler of the app (app.py, prompt_templates.py).                       *)
(*                                                                         *)
(* A Python str is a sequence of characters.  The characters of the model  *)
(* are one-character strings, plus three lexemes that stand for a run of   *)
(* letters with no whitespace in it: "def" (3 characters), "class" (5),    *)
(* Word15 (15), and the names that occur whole ("function", ".py", ...).   *)
(* No pattern of the code can match inside a lexeme.                       *)
(***************************************************************************)
EXTENDS Integers, Sequences, FiniteSets, TLC

VARIABLES
    pc,             \* position of the running script
    folder,         \* the dataset folder: the files os.walk yields, in order
    fi,             \* auto_chunk_folder: index of the next file of the walk
    all_chunks,     \* auto_chunk_folder: the aggregated chunk list
    logged,         \* stdout: names of the files an "Error reading" line names
    logfile,        \* chunks.jsonl: the characters on disk
    wi,             \* writer loop: index of the next chunk to write
    chunks,         \* build_index.py: the records loaded from the log
    embedder,       \* the embedding model: the point it maps each text to
    collection,     \* the records of the vector store collection "code_rag"
    request,        \* retrieve_context: its arguments (query, top_k)
    results,        \* retrieve_context: what collection.query returned
    returned,       \* retrieve_context: what it returned to its caller
    batch_size,     \* build_index.py: the number of chunks of a batch
    batch_i,        \* build_index.py: the loop variable i, the batch's offset
    added,          \* the ids this run has handed to collection.add, in order
    complete,       \* stdout: the completion message of this run is printed
    store_before,   \* the records get_or_create_collection found in the store
    run,            \* how many times the scripts have been started
    first_run,      \* how the first run ended, and the store it left
    prompt,         \* lmstudio_inference: its argument
    server,         \* what the LM Studio server does with the request
    answer,         \* lmstudio_inference: what it returned or raised
    sessions,       \* the retrieve_context calls of concurrent app sessions
    app             \* app.py: the form, the handler's locals and the page

walkVars == <<folder, fi, all_chunks, logged>>
logVars == <<logfile, wi, chunks>>
queryVars == <<embedder, collection, request, results, returned>>
indexVars == <<batch_size, batch_i, added, complete, store_before, run, first_run>>
inferVars == <<prompt, server, answer>>
vars == <<pc, walkVars, logVars, queryVars, indexVars, inferVars, sessions, app>>

----------------------------------------------------------------------------
(* Bounds of the model *)

\* longest text of a .py or .md file, in characters/lexemes
MaxLen == 5
\* most pages of a PDF, most cells of a notebook
MaxParts == 2
\* most files of a folder with several files
MaxFiles == 2

\* most records of the vector store, and the largest top_k asked for
MaxStore == 3
MaxK == 4

\* the values of the retrieval variables while no retrieval has run
NoRequest == [caller |-> "none", query |-> <<>>, top_k |-> 0]
NoResults == [documents |-> <<<<>>>>, metadatas |-> <<<<>>>>, distances |-> <<<<>>>>]
NoReturn ==
    [raised |-> FALSE, context |-> <<>>, second |-> [type |-> "none", value |-> <<>>]]

\* batch_size of build_index.py
BatchSize == 128

\* the values of the other scripts' variables while they have not run
NoFirst == [pc |-> "none", wi |-> 0, store |-> <<>>]
NotIndexing ==
    /\ batch_size = BatchSize
    /\ batch_i = 0
    /\ added = <<>>
    /\ complete = FALSE
    /\ store_before = <<>>
    /\ run = 1
    /\ first_run = NoFirst

NoServer == [outcome |-> "none", choices |-> <<>>, error |-> <<>>]
NoAnswer == [raised |-> FALSE, value |-> <<>>]
\* None, and a str, as the values of a variable that may hold either
None == [none |-> TRUE, str |-> <<>>]
Str(s) == [none |-> FALSE, str |-> s]

\* the app while the button has not been pressed: the form as it is drawn
\* (the first task type, empty text areas, the slider at 4), nothing shown
NoPage == [context |-> <<>>, answer |-> <<>>, sources |-> <<>>, traceback |-> <<>>]
NoApp ==
    [request_n |-> 0, task_type |-> "Code Generation", user_task |-> Str(<<>>),
     code_input |-> None, top_k |-> 4, query_text |-> Str(<<>>),
     retrievals |-> 0, inferences |-> 0, page |-> NoPage]

NotInferring ==
    /\ prompt = <<>>
    /\ server = NoServer
    /\ answer = NoAnswer

SeqsUpTo(S, n) == UNION {[1..m -> S] : m \in 0..n}

Min(S) == CHOOSE x \in S : \A y \in S : x <= y
Max(S) == CHOOSE x \in S : \A y \in S : x >= y

----------------------------------------------------------------------------
(* Strings *)

Word15 == "abcdefghijklmno"

\* len() of one character or lexeme
CharLen(c) ==
    IF c = "def" THEN 3
    ELSE IF c = "class" THEN 5
    ELSE IF c = Word15 THEN 15
    ELSE 1

RECURSIVE StrLen(_)
\* len(s)
StrLen(s) == IF s = <<>> THEN 0 ELSE CharLen(Head(s)) + StrLen(Tail(s))

\* str.isspace() / the regex class \s
IsSpace(c) == c \in {" ", "\n", "\r", "\t"}

\* str.strip()
Strip(s) ==
    LET ns == {i \in 1..Len(s) : ~IsSpace(s[i])}
    IN  IF ns = {} THEN <<>> ELSE SubSeq(s, Min(ns), Max(ns))

\* str.startswith(prefix)
StartsWith(s, prefix) ==
    /\ Len(prefix) <= Len(s)
    /\ SubSeq(s, 1, Len(prefix)) = prefix

\* suffix in s: the suffix anywhere in the string
ContainsInsteadOfEndsWith(s, suffix) ==
    \E i \in 1..Len(s) : i + Len(suffix) - 1 <= Len(s)
                         /\ SubSeq(s, i, i + Len(suffix) - 1) = suffix

\* str.endswith(suffix)
EndsWith(s, suffix) ==
    /\ Len(suffix) <= Len(s)
    /\ SubSeq(s, Len(s) - Len(suffix) + 1, Len(s)) = suffix

\* the regex anchor ^ under re.MULTILINE, before position i
LineStart(s, i) == i = 1 \/ s[i - 1] = "\n"

----------------------------------------------------------------------------
(* chunk_py *)

\* the pattern without re.MULTILINE: ^ matches at the start of the text only
PyBoundaryNoMultiline(s, i) ==
    /\ i < Len(s)
    /\ i = 1
    /\ s[i] \in {"def", "class"}
    /\ s[i + 1] = " "

\* the pattern (?=^def |^class ) matches (emptily) before position i
PyBoundary(s, i) ==
    /\ i < Len(s)
    /\ LineStart(s, i)
    /\ s[i] \in {"def", "class"}
    /\ s[i + 1] = " "

RECURSIVE PySplitFrom(_, _, _)
\* re.split on the empty matches at the boundaries: the piece open at `from`,
\* scanning at i
PySplitFrom(s, from, i) ==
    IF i > Len(s) THEN <<SubSeq(s, from, Len(s))>>
    ELSE IF PyBoundary(s, i)
         THEN <<SubSeq(s, from, i - 1)>> \o PySplitFrom(s, i, i + 1)
         ELSE PySplitFrom(s, from, i + 1)

PySplit(s) == PySplitFrom(s, 1, 1)

PyType(block) ==
    IF StartsWith(block, <<"def", " ">>) THEN <<"function">>
    ELSE IF StartsWith(block, <<"class", " ">>) THEN <<"class">>
    ELSE <<"top-level">>

RECURSIVE PyBlocks(_, _)
\* the loop over the splits: strip, skip the empty ones, classify
PyBlocks(splits, path) ==
    IF splits = <<>> THEN <<>>
    ELSE LET block == Strip(Head(splits))
         IN  IF block = <<>> THEN PyBlocks(Tail(splits), path)
             ELSE <<[text |-> block, source |-> path, type |-> PyType(block)]>>
                  \o PyBlocks(Tail(splits), path)

ChunkPy(path, content) == PyBlocks(PySplit(content), path)

----------------------------------------------------------------------------
(* chunk_md, chunk_pdf, chunk_ipynb *)

\* the pattern \n\n, which a blank line that holds a space does not match
BlankRunEndNoSpaces(s, i) ==
    IF s[i] = "\n" /\ i < Len(s) /\ s[i + 1] = "\n" THEN i + 1 ELSE 0

\* the pattern \n\s*\n matched at position i: the position of its last
\* character (\s* is greedy, so the run reaches the last newline of the
\* whitespace that follows), or 0 when it does not match at i
BlankRunEnd(s, i) ==
    IF s[i] # "\n" THEN 0
    ELSE LET ends == {j \in (i + 1)..Len(s) :
                        /\ s[j] = "\n"
                        /\ \A m \in (i + 1)..j : IsSpace(s[m])}
         IN  IF ends = {} THEN 0 ELSE Max(ends)

RECURSIVE MdSplitFromKeepingHash(_, _, _)
\* a split that does not consume the '#': the pattern \n\s*\n|(?=^#)
MdSplitFromKeepingHash(s, from, i) ==
    IF i > Len(s) THEN <<SubSeq(s, from, Len(s))>>
    ELSE IF BlankRunEnd(s, i) > 0
         THEN <<SubSeq(s, from, i - 1)>>
              \o MdSplitFromKeepingHash(s, BlankRunEnd(s, i) + 1, BlankRunEnd(s, i) + 1)
    ELSE IF LineStart(s, i) /\ s[i] = "#" /\ i > from
         THEN <<SubSeq(s, from, i - 1)>> \o MdSplitFromKeepingHash(s, i, i + 1)
    ELSE MdSplitFromKeepingHash(s, from, i + 1)

RECURSIVE MdSplitFrom(_, _, _)
\* re.split(r'\n\s*\n|^#', content, flags=re.MULTILINE)
MdSplitFrom(s, from, i) ==
    IF i > Len(s) THEN <<SubSeq(s, from, Len(s))>>
    ELSE IF BlankRunEnd(s, i) > 0
         THEN <<SubSeq(s, from, i - 1)>>
              \o MdSplitFrom(s, BlankRunEnd(s, i) + 1, BlankRunEnd(s, i) + 1)
    ELSE IF LineStart(s, i) /\ s[i] = "#"
         THEN <<SubSeq(s, from, i - 1)>> \o MdSplitFrom(s, i + 1, i + 1)
    ELSE MdSplitFrom(s, from, i + 1)

MdSplit(s) == MdSplitFrom(s, 1, 1)

RECURSIVE MdBlocks(_, _)
MdBlocks(splits, path) ==
    IF splits = <<>> THEN <<>>
    ELSE LET block == Strip(Head(splits))
         IN  IF block # <<>>
             THEN <<[text |-> block, source |-> path, type |-> <<"markdown">>]>>
                  \o MdBlocks(Tail(splits), path)
             ELSE MdBlocks(Tail(splits), path)

ChunkMd(path, content) == MdBlocks(MdSplit(content), path)

RECURSIVE BlankSplitFrom(_, _, _)
\* re.split(r'\n\s*\n', text)
BlankSplitFrom(s, from, i) ==
    IF i > Len(s) THEN <<SubSeq(s, from, Len(s))>>
    ELSE IF BlankRunEnd(s, i) > 0
         THEN <<SubSeq(s, from, i - 1)>>
              \o BlankSplitFrom(s, BlankRunEnd(s, i) + 1, BlankRunEnd(s, i) + 1)
    ELSE BlankSplitFrom(s, from, i + 1)

BlankSplit(s) == BlankSplitFrom(s, 1, 1)

\* the length a PDF paragraph must exceed
MinPdfLen == 30

RECURSIVE PdfText(_)
\* the page loop: text += page_text + "\n" for every page with text
PdfText(pages) ==
    IF pages = <<>> THEN <<>>
    ELSE IF Head(pages) # <<>>
         THEN Head(pages) \o <<"\n">> \o PdfText(Tail(pages))
         ELSE PdfText(Tail(pages))

RECURSIVE PdfBlocksInclusive(_, _)
\* a chunk_pdf that keeps a paragraph whose length reaches the threshold
PdfBlocksInclusive(paragraphs, path) ==
    IF paragraphs = <<>> THEN <<>>
    ELSE LET para == Strip(Head(paragraphs))
         IN  IF StrLen(para) >= MinPdfLen
             THEN <<[text |-> para, source |-> path, type |-> <<"pdf">>]>>
                  \o PdfBlocksInclusive(Tail(paragraphs), path)
             ELSE PdfBlocksInclusive(Tail(paragraphs), path)

RECURSIVE PdfBlocks(_, _)
PdfBlocks(paragraphs, path) ==
    IF paragraphs = <<>> THEN <<>>
    ELSE LET para == Strip(Head(paragraphs))
         IN  IF StrLen(para) > MinPdfLen
             THEN <<[text |-> para, source |-> path, type |-> <<"pdf">>]>>
                  \o PdfBlocks(Tail(paragraphs), path)
             ELSE PdfBlocks(Tail(paragraphs), path)

\* a chunk_pdf that appends the paragraphs of each page as soon as the page
\* is read, so that the pages before a failing one are already chunked
ChunkPdfPerPage(f) ==
    IF f.fail > 0
    THEN PdfBlocks(BlankSplit(PdfText(SubSeq(f.pages, 1, f.fail - 1))), f.name)
    ELSE PdfBlocks(BlankSplit(PdfText(f.pages)), f.name)

\* chunk_pdf.  f.fail > 0: PdfReader or the extract_text of page f.fail
\* raises; the except clause of chunk_pdf catches it and the chunk list, to
\* which nothing is appended before every page is read, is returned as it is.
ChunkPdf(f) ==
    IF f.fail > 0 THEN <<>>
    ELSE PdfBlocks(BlankSplit(PdfText(f.pages)), f.name)

RECURSIVE ChunkIpynbSkippingBlank(_, _)
\* a chunk_ipynb that strips the source of a cell and skips the blank ones
ChunkIpynbSkippingBlank(path, cells) ==
    IF cells = <<>> THEN <<>>
    ELSE (IF Strip(Head(cells).source) = <<>> THEN <<>>
          ELSE <<[text |-> Strip(Head(cells).source), source |-> path,
                  type |-> Head(cells).cell_type]>>)
         \o ChunkIpynbSkippingBlank(path, Tail(cells))

RECURSIVE ChunkIpynb(_, _)
\* chunk_ipynb: one chunk per cell of nb.cells
ChunkIpynb(path, cells) ==
    IF cells = <<>> THEN <<>>
    ELSE <<[text |-> Head(cells).source, source |-> path,
            type |-> Head(cells).cell_type]>>
         \o ChunkIpynb(path, Tail(cells))

----------------------------------------------------------------------------
(* auto_chunk_folder *)

\* A file of the folder: its name as os.walk gives it (the extension is the
\* last lexeme), what reading it yields, and whether reading it raises
\* (fail > 0; for a PDF, the page whose extraction raises).
File(name, text, cells, pages, fail) ==
    [name |-> name, text |-> text, cells |-> cells, pages |-> pages,
     fail |-> fail]

\* the call inside the try block of one branch of the walk: the chunks it
\* would extend all_chunks with, and whether it raises instead
CallIpynb(f) ==
    IF f.fail > 0 THEN [raised |-> TRUE, chunks |-> <<>>]
    ELSE [raised |-> FALSE, chunks |-> ChunkIpynb(f.name, f.cells)]

CallPy(f) ==
    IF f.fail > 0 THEN [raised |-> TRUE, chunks |-> <<>>]
    ELSE [raised |-> FALSE, chunks |-> ChunkPy(f.name, f.text)]

CallMd(f) ==
    IF f.fail > 0 THEN [raised |-> TRUE, chunks |-> <<>>]
    ELSE [raised |-> FALSE, chunks |-> ChunkMd(f.name, f.text)]

\* chunk_pdf catches its own exceptions and never raises
CallPdf(f) == [raised |-> FALSE, chunks |-> ChunkPdf(f)]

\* one try block around the whole loop: the first exception ends the walk
ExtendAbortingWalk(f, call) ==
    /\ all_chunks' = IF call.raised THEN all_chunks
                     ELSE all_chunks \o call.chunks
    /\ logged' = IF call.raised \/ (EndsWith(f.name, <<".pdf">>) /\ f.fail > 0)
                 THEN Append(logged, f.name)
                 ELSE logged
    /\ fi' = IF call.raised THEN Len(folder) + 1 ELSE fi + 1
    /\ UNCHANGED <<pc, folder, logVars, queryVars,
                 indexVars, inferVars, sessions, app>>

\* try: all_chunks.extend(<call>)  except Exception: print(...)
Extend(f, call) ==
    /\ all_chunks' = IF call.raised THEN all_chunks
                     ELSE all_chunks \o call.chunks
    /\ logged' = IF call.raised \/ (EndsWith(f.name, <<".pdf">>) /\ f.fail > 0)
                 THEN Append(logged, f.name)
                 ELSE logged
    /\ fi' = fi + 1
    /\ UNCHANGED <<pc, folder, logVars, queryVars,
                 indexVars, inferVars, sessions, app>>

Walking == pc = "walk" /\ fi <= Len(folder)

WalkIpynb ==
    /\ Walking
    /\ EndsWith(folder[fi].name, <<".ipynb">>)
    /\ Extend(folder[fi], CallIpynb(folder[fi]))

WalkPy ==
    /\ Walking
    /\ ~EndsWith(folder[fi].name, <<".ipynb">>)
    /\ EndsWith(folder[fi].name, <<".py">>)
    /\ Extend(folder[fi], CallPy(folder[fi]))

WalkMd ==
    /\ Walking
    /\ ~EndsWith(folder[fi].name, <<".ipynb">>)
    /\ ~EndsWith(folder[fi].name, <<".py">>)
    /\ EndsWith(folder[fi].name, <<".md">>)
    /\ Extend(folder[fi], CallMd(folder[fi]))

WalkPdf ==
    /\ Walking
    /\ ~EndsWith(folder[fi].name, <<".ipynb">>)
    /\ ~EndsWith(folder[fi].name, <<".py">>)
    /\ ~EndsWith(folder[fi].name, <<".md">>)
    /\ EndsWith(folder[fi].name, <<".pdf">>)
    /\ Extend(folder[fi], CallPdf(folder[fi]))

\* no branch of the if/elif chain applies
WalkSkip ==
    /\ Walking
    /\ ~EndsWith(folder[fi].name, <<".ipynb">>)
    /\ ~EndsWith(folder[fi].name, <<".py">>)
    /\ ~EndsWith(folder[fi].name, <<".md">>)
    /\ ~EndsWith(folder[fi].name, <<".pdf">>)
    /\ fi' = fi + 1
    /\ UNCHANGED <<pc, folder, all_chunks, logged, logVars, queryVars,
                 indexVars, inferVars, sessions, app>>

\* return all_chunks
WalkReturn ==
    /\ pc = "walk"
    /\ fi > Len(folder)
    /\ pc' = "chunked"
    /\ UNCHANGED <<walkVars, logVars, queryVars,
                 indexVars, inferVars, sessions, app>>

----------------------------------------------------------------------------
(* The embedding model and the vector store (external services) *)

\* the queries and the chunks of the retrieval model
Queries == {<<>>, <<"how", " ", "x">>}

QueryChunks ==
    {[text |-> <<"def", " ", "f">>, source |-> <<"a", ".py">>,
      type |-> <<"function">>],
     [text |-> <<"x", "\n", "y">>, source |-> <<"b", ".md">>,
      type |-> <<"markdown">>],
     [text |-> <<"def", " ", "f">>, source |-> <<"b", ".md">>,
      type |-> <<"markdown">>],
     [text |-> <<>>, source |-> <<"n", ".ipynb">>, type |-> <<"code">>]}

EmbedTexts == Queries \cup {c.text : c \in QueryChunks}

\* the points of the embedding space of the model: a line
Points == {0, 1}

\* embedder.encode([text], normalize_embeddings=True)
Encode(text) == embedder[text]

\* the distance of two embeddings
Distance(a, b) == IF a >= b THEN a - b ELSE b - a

----------------------------------------------------------------------------
(* The folders of the model *)

PyChars == {"def", "class", " ", "\n", "x"}
MdChars == {"#", " ", "\n", "x"}

CellSources ==
    {<<>>, <<" ", "\n">>, <<"x">>, <<"x", "\n", "\n", "def", " ", "x">>}

Cells == [cell_type : {<<"code">>, <<"markdown">>}, source : CellSources]

PageTexts ==
    {<<>>, <<Word15>>, <<Word15, Word15>>, <<Word15, Word15, "x">>,
     <<Word15, " ", Word15>>, <<"x", "\n", " ", "\n", Word15, Word15, "x">>,
     <<" ", Word15, Word15, "\n">>}

\* folders of one file, its content ranging over every text within the bounds
OneFileFolders ==
    {<<File(<<"a", ".py">>, t, <<>>, <<>>, 0)>> : t \in SeqsUpTo(PyChars, MaxLen)}
    \cup
    {<<File(<<"b", ".md">>, t, <<>>, <<>>, 0)>> : t \in SeqsUpTo(MdChars, MaxLen)}
    \cup
    {<<File(<<"n", ".ipynb">>, <<>>, c, <<>>, 0)>> : c \in SeqsUpTo(Cells, MaxParts)}
    \cup
    {<<File(<<"c", ".pdf">>, <<>>, <<>>, p, 0)>> : p \in SeqsUpTo(PageTexts, MaxParts)}

\* files of the folders with several files; each comes readable and failing
SomeFiles ==
    LET good ==
        {File(<<"a", ".py">>, <<"x", "\n", "def", " ", "x">>, <<>>, <<>>, 0),
         File(<<"a", ".py", ".md">>, <<"def", " ", "x", "\n", "\n", "x">>, <<>>, <<>>, 0),
         File(<<"b", ".md">>, <<"#", "x", "\n", "\n", "x">>, <<>>, <<>>, 0),
         File(<<"n", ".ipynb">>, <<>>,
              <<[cell_type |-> <<"code">>, source |-> <<"x">>],
                [cell_type |-> <<"markdown">>, source |-> <<"#", "x">>]>>, <<>>, 0),
         File(<<"c", ".pdf">>, <<>>, <<>>,
              <<<<Word15, Word15, "x">>, <<"\n", Word15, " ", Word15, " ", "x">>>>, 0),
         File(<<"d", ".txt">>, <<"def", " ", "x">>, <<>>, <<>>, 0),
         File(<<"e", ".pdf", ".bak">>, <<>>, <<>>, <<<<Word15, Word15, "x">>>>, 0)}
    IN  good
        \cup {[f EXCEPT !.fail = 1] : f \in good}
        \cup {[f EXCEPT !.fail = 2] : f \in {g \in good : Len(g.pages) = 2}}

\* a directory holds no two files of one name
DistinctNames(fs) ==
    \A i, j \in 1..Len(fs) : i # j => fs[i].name # fs[j].name

ManyFileFolders ==
    {fs \in SeqsUpTo(SomeFiles, MaxFiles) : Len(fs) >= 2 /\ DistinctNames(fs)}

Folders == OneFileFolders \cup ManyFileFolders

Init ==
    /\ pc = "walk"
    /\ folder \in Folders
    /\ fi = 1
    /\ all_chunks = <<>>
    /\ logged = <<>>
    /\ logfile = <<>>
    /\ wi = 0
    /\ chunks = <<>>
    /\ embedder = [t \in EmbedTexts |-> 0]
    /\ collection = <<>>
    /\ request = NoRequest
    /\ results = NoResults
    /\ returned = NoReturn
    /\ NotIndexing
    /\ NotInferring
    /\ sessions = <<>>
    /\ app = NoApp

Next ==
    \/ WalkIpynb
    \/ WalkPy
    \/ WalkMd
    \/ WalkPdf
    \/ WalkSkip
    \/ WalkReturn

Spec == Init /\ [][Next]_vars

----------------------------------------------------------------------------
(* The chunk log: json.dumps / file write, file read / json.loads *)

\* a lone surrogate code point, as os.walk gives for a file name byte that is
\* not UTF-8 (surrogateescape) and json.loads for the escape \udcff
Surrogate == "U+DCFF"

\* json.dumps without escaping the newline characters
JsonEscapeRawNewline(c) ==
    CASE c = "\"" -> <<"\\", "\"">>
      [] c = "\\" -> <<"\\", "\\">>
      [] OTHER -> <<c>>

\* json.dumps(..., ensure_ascii=False) of one character of a string
JsonEscape(c) ==
    CASE c = "\"" -> <<"\\", "\"">>
      [] c = "\\" -> <<"\\", "\\">>
      [] c = "\n" -> <<"\\", "n">>
      [] c = "\r" -> <<"\\", "r">>
      [] c = "\t" -> <<"\\", "t">>
      [] OTHER -> <<c>>

RECURSIVE JsonEscapeAll(_)
JsonEscapeAll(s) ==
    IF s = <<>> THEN <<>> ELSE JsonEscape(Head(s)) \o JsonEscapeAll(Tail(s))

\* json.dumps of a str
JsonString(s) == <<"\"">> \o JsonEscapeAll(s) \o <<"\"">>

\* json.dumps(chunk, ensure_ascii=False): the keys in insertion order
JsonDumps(chunk) ==
    <<"{">> \o JsonString(<<"text">>) \o <<":", " ">> \o JsonString(chunk.text)
    \o <<",", " ">> \o JsonString(<<"source">>) \o <<":", " ">>
    \o JsonString(chunk.source)
    \o <<",", " ">> \o JsonString(<<"type">>) \o <<":", " ">>
    \o JsonString(chunk.type) \o <<"}">>

\* the utf-8 encoder of the log file accepts the text
Encodable(s) == \A i \in 1..Len(s) : s[i] # Surrogate

\* the character an escape letter of a JSON string stands for
Unescape(c) ==
    CASE c = "n" -> "\n"
      [] c = "r" -> "\r"
      [] c = "t" -> "\t"
      [] c = "udcff" -> Surrogate
      [] OTHER -> c

Failed == [ok |-> FALSE, val |-> <<>>, next |-> 0]

RECURSIVE SkipSpace(_, _)
SkipSpace(s, i) ==
    IF i <= Len(s) /\ IsSpace(s[i]) THEN SkipSpace(s, i + 1) ELSE i

RECURSIVE ParseChars(_, _, _)
\* json.loads inside a string literal, at position i
ParseChars(s, i, acc) ==
    IF i > Len(s) THEN Failed
    ELSE IF s[i] = "\"" THEN [ok |-> TRUE, val |-> acc, next |-> i + 1]
    ELSE IF s[i] = "\\"
         THEN IF i + 1 > Len(s)
                 \/ s[i + 1] \notin {"\"", "\\", "n", "r", "t", "udcff"}
              THEN Failed
              ELSE ParseChars(s, i + 2, Append(acc, Unescape(s[i + 1])))
    ELSE IF s[i] \in {"\n", "\r", "\t"} THEN Failed
    ELSE ParseChars(s, i + 1, Append(acc, s[i]))

ParseString(s, i) ==
    IF i <= Len(s) /\ s[i] = "\"" THEN ParseChars(s, i + 1, <<>>) ELSE Failed

RECURSIVE ParseMembers(_, _, _)
\* json.loads inside an object, at the start of a key; acc is the dict so far
ParseMembers(s, i, acc) ==
    LET key == ParseString(s, i)
        colon == SkipSpace(s, key.next)
        value == ParseString(s, SkipSpace(s, colon + 1))
        after == SkipSpace(s, value.next)
        dict == [k \in DOMAIN acc \cup {key.val[1]} |->
                    IF k = key.val[1] THEN value.val ELSE acc[k]]
    IN  IF ~key.ok \/ Len(key.val) # 1 THEN Failed
        ELSE IF colon > Len(s) \/ s[colon] # ":" THEN Failed
        ELSE IF ~value.ok THEN Failed
        ELSE IF after > Len(s) THEN Failed
        ELSE IF s[after] = "}" THEN [ok |-> TRUE, val |-> dict, next |-> after + 1]
        ELSE IF s[after] = "," THEN ParseMembers(s, SkipSpace(s, after + 1), dict)
        ELSE Failed

\* json.loads(line) of a line that holds an object of strings
JsonLoads(s) ==
    LET open == SkipSpace(s, 1)
        first == SkipSpace(s, open + 1)
        obj == IF first <= Len(s) /\ s[first] = "}"
               THEN [ok |-> TRUE, val |-> <<>>, next |-> first + 1]
               ELSE ParseMembers(s, first, <<>>)
    IN  IF open > Len(s) \/ s[open] # "{" THEN Failed
        ELSE IF ~obj.ok THEN Failed
        ELSE IF SkipSpace(s, obj.next) <= Len(s) THEN Failed
        ELSE obj

RECURSIVE LinesFrom(_, _)
\* iteration over a text file (universal newlines): the lines from position
\* `from` on, each with its terminator "\n", "\r" or "\r\n"
LinesFrom(s, from) ==
    LET ends == {i \in from..Len(s) : s[i] \in {"\n", "\r"}}
        i == Min(ends)
        last == IF s[i] = "\r" /\ i < Len(s) /\ s[i + 1] = "\n" THEN i + 1 ELSE i
    IN  IF from > Len(s) THEN <<>>
        ELSE IF ends = {} THEN <<SubSeq(s, from, Len(s))>>
        ELSE <<SubSeq(s, from, last)>> \o LinesFrom(s, last + 1)

Lines(s) == LinesFrom(s, 1)

RECURSIVE LoadLines(_, _)
\* for line in f: chunks.append(json.loads(line)).  The records loaded, and
\* whether a json.loads raised and ended the script
LoadLines(lines, acc) ==
    IF lines = <<>> THEN [raised |-> FALSE, chunks |-> acc]
    ELSE LET rec == JsonLoads(Head(lines))
         IN  IF rec.ok THEN LoadLines(Tail(lines), Append(acc, rec.val))
             ELSE [raised |-> TRUE, chunks |-> acc]

\* auto_chunker.py __main__: input(), auto_chunk_folder(root_folder)
StartChunker ==
    /\ pc = "idle"
    /\ pc' = "walk"
    /\ UNCHANGED <<walkVars, logVars, queryVars,
                 indexVars, inferVars, sessions, app>>

\* open("chunks.jsonl", "a", encoding="utf-8"): the log of an earlier run
\* stays and the chunks are written after it
OpenLogAppending ==
    /\ pc = "chunked"
    /\ wi' = 1
    /\ pc' = "write"
    /\ UNCHANGED <<walkVars, logfile, chunks, queryVars,
                   indexVars, inferVars, sessions, app>>

\* open("chunks.jsonl", "w", encoding="utf-8") truncates the file
OpenLog ==
    /\ pc = "chunked"
    /\ logfile' = <<>>
    /\ wi' = 1
    /\ pc' = "write"
    /\ UNCHANGED <<walkVars, chunks, queryVars,
                 indexVars, inferVars, sessions, app>>

\* out.write(json.dumps(chunk, ensure_ascii=False) + "\n")
WriteChunk ==
    /\ pc = "write"
    /\ wi <= Len(all_chunks)
    /\ Encodable(JsonDumps(all_chunks[wi]))
    /\ logfile' = logfile \o JsonDumps(all_chunks[wi]) \o <<"\n">>
    /\ wi' = wi + 1
    /\ UNCHANGED <<pc, walkVars, chunks, queryVars,
                 indexVars, inferVars, sessions, app>>

\* out.write raises UnicodeEncodeError: the with block closes the file with
\* the lines written so far and the script ends
WriteFail ==
    /\ pc = "write"
    /\ wi <= Len(all_chunks)
    /\ ~Encodable(JsonDumps(all_chunks[wi]))
    /\ pc' = "write_failed"
    /\ UNCHANGED <<walkVars, logVars, queryVars,
                 indexVars, inferVars, sessions, app>>

\* the loop ends, the file is closed
WriteDone ==
    /\ pc = "write"
    /\ wi > Len(all_chunks)
    /\ pc' = "written"
    /\ UNCHANGED <<walkVars, logVars, queryVars,
                 indexVars, inferVars, sessions, app>>

\* build_index.py, lines 9-12, run while no other script runs
ReadLog ==
    /\ pc \in {"idle", "written", "write_failed"}
    /\ ~LoadLines(Lines(logfile), <<>>).raised
    /\ chunks' = LoadLines(Lines(logfile), <<>>).chunks
    /\ pc' = "loaded"
    /\ UNCHANGED <<walkVars, logfile, wi, queryVars,
                 indexVars, inferVars, sessions, app>>

\* the same, a json.loads raising
ReadLogFail ==
    /\ pc \in {"idle", "written", "write_failed"}
    /\ LoadLines(Lines(logfile), <<>>).raised
    /\ chunks' = LoadLines(Lines(logfile), <<>>).chunks
    /\ pc' = "load_failed"
    /\ UNCHANGED <<walkVars, logfile, wi, queryVars,
                 indexVars, inferVars, sessions, app>>

\* the texts of the notebook cells the log is exercised with: every string of
\* up to two of the characters JSON escapes, and some with a carriage return
\* or a surrogate
LogTexts ==
    LET cs == {"\n", "\"", "\\", "n"}
    IN  {<<>>} \cup {<<c>> : c \in cs} \cup {<<c, d>> : <<c, d>> \in cs \X cs}
        \cup {<<"\r">>, <<"\r", "\n">>, <<"x", "\r">>, <<Surrogate>>}

LogFolders ==
    {<<File(<<"n", ".ipynb">>, <<>>, c, <<>>, 0)>> :
        c \in SeqsUpTo([cell_type : {<<"code">>}, source : LogTexts], MaxParts)}
    \cup
    {<<File(<<"a", ".py">>, <<"x", "\n", "def", " ", "x">>, <<>>, <<>>, 0),
       File(<<Surrogate, ".py">>, <<"def", " ", "x">>, <<>>, <<>>, 0),
       File(<<"b", ".md">>, <<"#", "x", "\n", "\n", "x">>, <<>>, <<>>, 0)>>}

\* what chunks.jsonl holds before the scripts run: nothing, the log of an
\* earlier run, or a file that is not a chunk log
PriorLogs ==
    {<<>>,
     JsonDumps([text |-> <<"o", "\n">>, source |-> <<"old", ".md">>,
                type |-> <<"markdown">>]) \o <<"\n">>,
     <<"{", "\"", "text", "\n">>}

InitLog ==
    /\ pc = "idle"
    /\ folder \in LogFolders
    /\ fi = 1
    /\ all_chunks = <<>>
    /\ logged = <<>>
    /\ logfile \in PriorLogs
    /\ wi = 0
    /\ chunks = <<>>
    /\ embedder = [t \in EmbedTexts |-> 0]
    /\ collection = <<>>
    /\ request = NoRequest
    /\ results = NoResults
    /\ returned = NoReturn
    /\ NotIndexing
    /\ NotInferring
    /\ sessions = <<>>
    /\ app = NoApp

NextLog ==
    \/ StartChunker
    \/ WalkIpynb
    \/ WalkPy
    \/ WalkMd
    \/ WalkReturn
    \/ OpenLog
    \/ WriteChunk
    \/ WriteFail
    \/ WriteDone
    \/ ReadLog
    \/ ReadLogFail

SpecLog == InitLog /\ [][NextLog]_vars

----------------------------------------------------------------------------
(* Retrieval and context assembly: rag_utils.py, rag_query.py, app.py *)

Digit(d) == <<"0", "1", "2", "3", "4", "5", "6", "7", "8", "9">>[d + 1]

RECURSIVE IntToStr(_)
\* str(n) of a natural number, as an f-string formats it
IntToStr(n) ==
    IF n < 10 THEN <<Digit(n)>>
    ELSE IntToStr(n \div 10) \o <<Digit(n % 10)>>

\* f"chunk_{g}", the id build_index.py gives the g-th chunk of the log
ChunkId(g) == <<"chunk_">> \o IntToStr(g)

\* a record whose metadata is the whole chunk: metadatas = batch
StoreRecordWholeChunkMetadata(g, chunk) ==
    [id |-> ChunkId(g),
     document |-> chunk.text,
     metadata |-> chunk,
     embedding |-> Encode(chunk.text)]

\* the record collection.add stores for the g-th chunk (g from 0)
StoreRecord(g, chunk) ==
    [id |-> ChunkId(g),
     document |-> chunk.text,
     metadata |-> [source |-> chunk.source, type |-> chunk.type],
     embedding |-> Encode(chunk.text)]

\* the collection build_index.py builds from a chunk list in an empty store
StoreOf(cs) == [g \in 1..Len(cs) |-> StoreRecord(g - 1, cs[g])]

\* the place of record i in the ranking for a query embedding: by distance,
\* ties by insertion order
RankOf(coll, qemb, i) ==
    1 + Cardinality({j \in 1..Len(coll) :
            \/ Distance(qemb, coll[j].embedding) < Distance(qemb, coll[i].embedding)
            \/ /\ Distance(qemb, coll[j].embedding) = Distance(qemb, coll[i].embedding)
               /\ j < i})

\* collection.query(query_embeddings=[qemb], n_results=k): the nearest
\* min(k, count) records, nearest first; of an empty collection, empty lists.
\* Every field holds one list per query embedding.
CollectionQuery(coll, qemb, k) ==
    LET m == IF k <= Len(coll) THEN k ELSE Len(coll)
        at == [p \in 1..m |-> CHOOSE i \in 1..Len(coll) : RankOf(coll, qemb, i) = p]
    IN  [documents |-> <<[p \in 1..m |-> coll[at[p]].document]>>,
         metadatas |-> <<[p \in 1..m |-> coll[at[p]].metadata]>>,
         distances |-> <<[p \in 1..m |-> Distance(qemb, coll[at[p]].embedding)]>>]

\* dict.get(key, default)
DictGet(d, key, default) == IF key \in DOMAIN d THEN d[key] ELSE default

\* enumerate(..., 0): the ranks start at 0
ContextBlockFromZero(i, doc, meta) ==
    <<"[">> \o IntToStr(i - 1) \o <<"]", " ", "(">>
    \o DictGet(meta, "type", <<"unknown">>)
    \o <<")", " ", "Source:", " ">> \o meta["source"] \o <<"\n">>
    \o doc \o <<"\n">>

\* f"[{i}] ({typ}) Source: {src}\n{doc}\n"
ContextBlock(i, doc, meta) ==
    <<"[">> \o IntToStr(i) \o <<"]", " ", "(">>
    \o DictGet(meta, "type", <<"unknown">>)
    \o <<")", " ", "Source:", " ">> \o meta["source"] \o <<"\n">>
    \o doc \o <<"\n">>

\* the blocks in the reverse of the retrieval order
ContextChunksReversed(docs, metadatas) ==
    LET n == IF Len(docs) <= Len(metadatas) THEN Len(docs) ELSE Len(metadatas)
    IN  [i \in 1..n |-> ContextBlock(i, docs[n + 1 - i], metadatas[n + 1 - i])]

\* zip(docs, metadatas) after the first pair is skipped
ContextChunksSkippingFirst(docs, metadatas) ==
    LET n == IF Len(docs) <= Len(metadatas) THEN Len(docs) ELSE Len(metadatas)
    IN  [i \in 1..(IF n = 0 THEN 0 ELSE n - 1) |->
            ContextBlock(i, docs[i + 1], metadatas[i + 1])]

\* a loop that skips a chunk whose text and source it has already rendered
ContextChunksDeduplicated(docs, metadatas) ==
    LET n == IF Len(docs) <= Len(metadatas) THEN Len(docs) ELSE Len(metadatas)
        keep == {i \in 1..n : ~\E j \in 1..(i - 1) :
                    docs[j] = docs[i] /\ metadatas[j] = metadatas[i]}
        nth(p) == CHOOSE i \in keep : Cardinality({j \in keep : j < i}) = p - 1
    IN  [p \in 1..Cardinality(keep) |-> ContextBlock(p, docs[nth(p)], metadatas[nth(p)])]

\* the list context_chunks: for i, (doc, meta) in enumerate(zip(docs, metadatas), 1)
ContextChunks(docs, metadatas) ==
    LET n == IF Len(docs) <= Len(metadatas) THEN Len(docs) ELSE Len(metadatas)
    IN  [i \in 1..n |-> ContextBlock(i, docs[i], metadatas[i])]

RECURSIVE JoinNewline(_)
\* "\n".join(strings)
JoinNewline(strings) ==
    IF strings = <<>> THEN <<>>
    ELSE IF Len(strings) = 1 THEN Head(strings)
    ELSE Head(strings) \o <<"\n">> \o JoinNewline(Tail(strings))

\* the citations numbered from 0
SourcesFromZero(metadatas) ==
    [i \in 1..Len(metadatas) |->
        <<"[">> \o IntToStr(i - 1) \o <<"]", " ">> \o metadatas[i]["source"]]

\* rag_query.py: sources = [f"[{i}] {meta['source']}" for i, meta in enumerate(metadatas, 1)]
Sources(metadatas) ==
    [i \in 1..Len(metadatas) |->
        <<"[">> \o IntToStr(i) \o <<"]", " ">> \o metadatas[i]["source"]]

\* app.py: the lines written under "Sources",
\* f"[{i}] {meta['source']} ({meta.get('type','')})"
AppSources(metadatas) ==
    [i \in 1..Len(metadatas) |->
        <<"[">> \o IntToStr(i) \o <<"]", " ">> \o metadatas[i]["source"]
        \o <<" ", "(">> \o DictGet(metadatas[i], "type", <<>>) \o <<")">>]

\* a body that reads docs[0] before the loop: IndexError when nothing is
\* retrieved
ReturnUtilsReadingFirst(res) ==
    IF res.documents[1] = <<>>
    THEN [raised |-> TRUE, context |-> <<>>,
          second |-> [type |-> "none", value |-> <<>>]]
    ELSE [raised |-> FALSE,
          context |-> JoinNewline(ContextChunks(res.documents[1], res.metadatas[1])),
          second |-> [type |-> "list[dict]", value |-> res.metadatas[1]]]

\* a retrieve_context that answers an empty query with nothing
ReturnUtilsRefusingEmpty(res) ==
    IF request.query = <<>>
    THEN [raised |-> FALSE, context |-> <<>>,
          second |-> [type |-> "list[dict]", value |-> <<>>]]
    ELSE [raised |-> FALSE,
          context |-> JoinNewline(ContextChunks(res.documents[1], res.metadatas[1])),
          second |-> [type |-> "list[dict]", value |-> res.metadatas[1]]]

\* rag_utils.retrieve_context, lines 15-22: docs and metadatas are the lists
\* of the one query; it returns (context, metadatas), a str and the list of
\* metadata dicts
ReturnUtils(res) ==
    [raised |-> FALSE,
     context |-> JoinNewline(ContextChunks(res.documents[1], res.metadatas[1])),
     second |-> [type |-> "list[dict]", value |-> res.metadatas[1]]]

\* rag_query.retrieve_context, lines 22-31: it returns (context, sources),
\* two str
ReturnQuery(res) ==
    [raised |-> FALSE,
     context |-> JoinNewline(ContextChunks(res.documents[1], res.metadatas[1])),
     second |-> [type |-> "str",
                 value |-> JoinNewline(Sources(res.metadatas[1]))]]

\* rag_utils.retrieve_context(query, top_k) is called (app.py passes the
\* text of the form and the value of its slider)
CallUtils ==
    /\ pc = "ready"
    /\ \E q \in Queries, k \in 1..MaxK :
          request' = [caller |-> "rag_utils", query |-> q, top_k |-> k]
    /\ pc' = "query"
    /\ UNCHANGED <<walkVars, logVars, embedder, collection, results, returned,
                 indexVars, inferVars, sessions, app>>

\* rag_query.retrieve_context(query, top_k) is called (the query loop passes
\* the line read and TOP_K)
CallQuery ==
    /\ pc = "ready"
    /\ \E q \in Queries, k \in 1..MaxK :
          request' = [caller |-> "rag_query", query |-> q, top_k |-> k]
    /\ pc' = "query"
    /\ UNCHANGED <<walkVars, logVars, embedder, collection, results, returned,
                 indexVars, inferVars, sessions, app>>

\* a retrieve_context that catches the exception and returns as if the store
\* held no record
Swallowed(e) ==
    [raised |-> FALSE, context |-> <<>>,
     second |-> [type |-> "list[dict]", value |-> <<>>]]

\* an exception of a call inside retrieve_context, which has no try block,
\* leaves it for the caller: nothing is returned
Propagated(e) ==
    [raised |-> TRUE, context |-> <<>>, second |-> [type |-> "exception", value |-> e]]

\* embedder.encode raises
EncodeRaises ==
    /\ pc = "query"
    /\ returned' = Propagated(<<"encode", " ", "failed">>)
    /\ pc' = "raised"
    /\ UNCHANGED <<walkVars, logVars, embedder, collection, request, results,
                   indexVars, inferVars, sessions, app>>

\* collection.query raises (store unreachable, malformed query)
QueryRaises ==
    /\ pc = "query"
    /\ returned' = Propagated(<<"query", " ", "failed">>)
    /\ pc' = "raised"
    /\ UNCHANGED <<walkVars, logVars, embedder, collection, request, results,
                   indexVars, inferVars, sessions, app>>

\* q_emb = embedder.encode([query], ...); results = collection.query(...)
QueryStore ==
    /\ pc = "query"
    /\ results' = CollectionQuery(collection, Encode(request.query), request.top_k)
    /\ pc' = "assemble"
    /\ UNCHANGED <<walkVars, logVars, embedder, collection, request, returned,
                 indexVars, inferVars, sessions, app>>

\* rag_utils.py lines 15-22
AssembleUtils ==
    /\ pc = "assemble"
    /\ request.caller = "rag_utils"
    /\ returned' = ReturnUtils(results)
    /\ pc' = "answered"
    /\ UNCHANGED <<walkVars, logVars, embedder, collection, request, results,
                 indexVars, inferVars, sessions, app>>

\* rag_query.py lines 22-31
AssembleQuery ==
    /\ pc = "assemble"
    /\ request.caller = "rag_query"
    /\ returned' = ReturnQuery(results)
    /\ pc' = "answered"
    /\ UNCHANGED <<walkVars, logVars, embedder, collection, request, results,
                 indexVars, inferVars, sessions, app>>

\* the state in which the retriever is imported: a collection build_index.py
\* has built, and the embedding model both scripts load
InitQuery ==
    /\ pc = "ready"
    /\ folder = <<>>
    /\ fi = 1
    /\ all_chunks = <<>>
    /\ logged = <<>>
    /\ logfile = <<>>
    /\ wi = 0
    /\ chunks = <<>>
    /\ embedder \in [EmbedTexts -> Points]
    /\ \E cs \in SeqsUpTo(QueryChunks, MaxStore) : collection = StoreOf(cs)
    /\ request = NoRequest
    /\ results = NoResults
    /\ returned = NoReturn
    /\ NotIndexing
    /\ NotInferring
    /\ sessions = <<>>
    /\ app = NoApp

NextQuery ==
    \/ CallUtils
    \/ CallQuery
    \/ EncodeRaises
    \/ QueryRaises
    \/ QueryStore
    \/ AssembleUtils
    \/ AssembleQuery

SpecQuery == InitQuery /\ [][NextQuery]_vars

----------------------------------------------------------------------------
(* Properties of the chunker *)

\* the chunks of all_chunks whose source is the file named `name`, in order
ChunksOf(name) == SelectSeq(all_chunks, LAMBDA c : c.source = name)

\* the chunker the if/elif chain of the walk picks for a file name
Dispatch(name) ==
    IF EndsWith(name, <<".ipynb">>) THEN "ipynb"
    ELSE IF EndsWith(name, <<".py">>) THEN "py"
    ELSE IF EndsWith(name, <<".md">>) THEN "md"
    ELSE IF EndsWith(name, <<".pdf">>) THEN "pdf"
    ELSE "none"

\* C1: no chunk the chunker produces has a text that is empty or
\* whitespace-only after trimming.
C1_NoBlankChunk ==
    \A i \in 1..Len(all_chunks) : Strip(all_chunks[i].text) # <<>>

\* C1, as far as the code keeps it: the chunks of .py, .md and .pdf files are
\* never blank (a notebook cell is emitted whatever its source).
C1_NoBlankChunkOutsideNotebooks ==
    \A i \in 1..Len(all_chunks) :
        Dispatch(all_chunks[i].source) # "ipynb"
            => Strip(all_chunks[i].text) # <<>>

\* the definition boundaries of a text: the line starts that 'def ' or
\* 'class ' follows
DefBoundaries(s) ==
    {i \in 1..Len(s) :
        /\ i = 1 \/ s[i - 1] = "\n"
        /\ s[i] = "def" \/ s[i] = "class"
        /\ i + 1 <= Len(s)
        /\ s[i + 1] = " "}

\* 1 when text that is not whitespace precedes the first boundary, else 0
LeadingBlock(s) ==
    LET first == IF DefBoundaries(s) = {} THEN Len(s) + 1
                 ELSE Min(DefBoundaries(s))
    IN  IF \E i \in 1..(first - 1) : s[i] \notin {" ", "\n", "\r", "\t"}
        THEN 1 ELSE 0

\* C2: the number of chunks of a code file is the number of its top-level
\* definition boundaries, plus one exactly when text that is not whitespace
\* precedes the first boundary.
C2_PyChunkCount ==
    pc = "chunked" =>
        \A j \in 1..Len(folder) :
            (Dispatch(folder[j].name) = "py" /\ folder[j].fail = 0)
                => Len(ChunksOf(folder[j].name))
                     = Cardinality(DefBoundaries(folder[j].text))
                       + LeadingBlock(folder[j].text)

\* a code file with two boundaries was chunked into two chunks
C2_Witness ==
    /\ pc = "chunked"
    /\ Len(folder) = 1
    /\ Dispatch(folder[1].name) = "py"
    /\ Cardinality(DefBoundaries(folder[1].text)) = 2
    /\ Len(all_chunks) = 2

\* what a file contributes when chunked on its own and nothing fails
Solo(f) ==
    CASE Dispatch(f.name) = "ipynb" -> ChunkIpynb(f.name, f.cells)
      [] Dispatch(f.name) = "py" -> ChunkPy(f.name, f.text)
      [] Dispatch(f.name) = "md" -> ChunkMd(f.name, f.text)
      [] Dispatch(f.name) = "pdf" ->
            PdfBlocks(BlankSplit(PdfText(f.pages)), f.name)
      [] OTHER -> <<>>

RECURSIVE SoloOfReadable(_)
\* the contributions of the readable files of a folder, in walk order
SoloOfReadable(fs) ==
    IF fs = <<>> THEN <<>>
    ELSE (IF Head(fs).fail = 0 THEN Solo(Head(fs)) ELSE <<>>)
         \o SoloOfReadable(Tail(fs))

\* C10: whichever files fail, the walk reaches its end, and the chunks of
\* every other file are the chunks it contributes when no file fails: same
\* count, same content, same relative order.
C10_FailureIsolation ==
    pc = "chunked" =>
        /\ fi = Len(folder) + 1
        /\ \A j \in 1..Len(folder) :
              folder[j].fail = 0 => ChunksOf(folder[j].name) = Solo(folder[j])
        /\ SelectSeq(all_chunks,
                     LAMBDA c : \E j \in 1..Len(folder) :
                                   folder[j].fail = 0 /\ folder[j].name = c.source)
             = SoloOfReadable(folder)

\* a file failed and was logged, and a file after it contributed its chunks
C10_Witness ==
    /\ pc = "chunked"
    /\ logged # <<>>
    /\ \E j, k \in 1..Len(folder) :
          /\ j < k
          /\ folder[j].fail > 0
          /\ Dispatch(folder[j].name) \in {"py", "md", "ipynb"}
          /\ folder[k].fail = 0
          /\ ChunksOf(folder[k].name) # <<>>

\* C11: a file is chunked all or nothing.  Every file the walk has passed
\* contributes either every chunk it yields when chunked alone or no chunk at
\* all, and a file whose reading raised (a PDF whose later page raised
\* included) contributes none: never a proper, non-empty prefix.
C11_FileAtomicity ==
    \A j \in 1..Len(folder) :
        /\ ChunksOf(folder[j].name) \in {<<>>, Solo(folder[j])}
        /\ (j >= fi \/ folder[j].fail > 0) => ChunksOf(folder[j].name) = <<>>
        /\ (j < fi /\ folder[j].fail = 0) => ChunksOf(folder[j].name) = Solo(folder[j])

\* a PDF whose first page alone holds a paragraph long enough to be kept
\* raised on its second page and contributed nothing
C11_Witness ==
    /\ pc = "chunked"
    /\ \E j \in 1..Len(folder) :
          /\ Dispatch(folder[j].name) = "pdf"
          /\ folder[j].fail = 2
          /\ PdfBlocks(BlankSplit(PdfText(SubSeq(folder[j].pages, 1, 1))),
                       folder[j].name) # <<>>
          /\ ChunksOf(folder[j].name) = <<>>

\* the paragraphs of a PDF: the pieces of the text of its pages between runs
\* of blank lines, trimmed
Paragraphs(f) ==
    LET pieces == BlankSplit(PdfText(f.pages))
    IN  [n \in 1..Len(pieces) |-> Strip(pieces[n])]

\* C20: the chunks of a readable PDF are its paragraphs of 31 characters or
\* more after trimming, in order and typed pdf; a paragraph of 30 characters
\* or fewer yields no chunk.
C20_PdfThreshold ==
    \A j \in 1..Len(folder) :
        (j < fi /\ Dispatch(folder[j].name) = "pdf" /\ folder[j].fail = 0) =>
            LET kept == SelectSeq(Paragraphs(folder[j]),
                                  LAMBDA p : StrLen(p) >= 31)
                got  == ChunksOf(folder[j].name)
            IN  /\ Len(got) = Len(kept)
                /\ \A n \in 1..Len(got) :
                      /\ got[n].text = kept[n]
                      /\ got[n].type = <<"pdf">>
                      /\ got[n].source = folder[j].name

\* a PDF with a paragraph of exactly 30 characters, dropped, and one of 31,
\* kept
C20_Witness ==
    /\ pc = "chunked"
    /\ \E j \in 1..Len(folder) :
          /\ Dispatch(folder[j].name) = "pdf"
          /\ folder[j].fail = 0
          /\ \E n \in 1..Len(Paragraphs(folder[j])) :
                StrLen(Paragraphs(folder[j])[n]) = 30
          /\ \E n \in 1..Len(Paragraphs(folder[j])) :
                StrLen(Paragraphs(folder[j])[n]) = 31
          /\ Len(ChunksOf(folder[j].name)) = 1

----------------------------------------------------------------------------
(* Properties of the chunk log *)

\* C3: the chunks written to the log and read back line by line are the same
\* records in the same order: none lost, split or merged.
C3_LogRoundTrip ==
    (pc = "loaded" /\ wi > 0) => chunks = all_chunks

\* C3, as far as the code keeps it: the round trip is exact whenever every
\* string of the chunks is well-formed Unicode (no lone surrogate), embedded
\* newlines and carriage returns included.
C3_LogRoundTripWellFormed ==
    (pc = "loaded" /\ wi > 0
     /\ \A i \in 1..Len(all_chunks) : Encodable(JsonDumps(all_chunks[i])))
        => chunks = all_chunks

\* two chunks with a newline and a carriage return went through the log
C3_WellFormedWitness ==
    /\ pc = "loaded"
    /\ wi > 0
    /\ Len(chunks) = 2
    /\ chunks[1].text = <<"\r", "\n">>
    /\ chunks[2].text = <<"\\", "n">>

----------------------------------------------------------------------------
(* Properties of retrieval and context assembly *)

\* Reading a context block back.  In the model a rank is one digit, a type
\* one lexeme, and no text holds the lexeme "Source:" or a source a newline.
Retrieved == results.documents[1]
RetrievedMeta == results.metadatas[1]
Headers(ctx) == {p \in 1..Len(ctx) : ctx[p] = "Source:"}
NthHeader(ctx, i) ==
    CHOOSE p \in Headers(ctx) : Cardinality({q \in Headers(ctx) : q < p}) = i - 1
HeaderEnd(ctx, i) == Min({q \in NthHeader(ctx, i)..Len(ctx) : ctx[q] = "\n"})
BlockEnd(ctx, i) ==
    IF i < Cardinality(Headers(ctx)) THEN NthHeader(ctx, i + 1) - 10 ELSE Len(ctx)
BlockRank(ctx, i) == ctx[NthHeader(ctx, i) - 7]
BlockType(ctx, i) == <<ctx[NthHeader(ctx, i) - 3]>>
BlockSource(ctx, i) == SubSeq(ctx, NthHeader(ctx, i) + 2, HeaderEnd(ctx, i) - 1)
BlockText(ctx, i) == SubSeq(ctx, HeaderEnd(ctx, i) + 1, BlockEnd(ctx, i) - 1)

RankText == <<"1", "2", "3", "4", "5", "6", "7", "8", "9">>

\* C4: from a non-empty index of n records retrieval returns min(k, n)
\* results in order of non-decreasing distance to the query embedding, and
\* the context block holds them in the order the store returned them.
C4_CountAndOrder ==
    (pc = "answered" /\ collection # <<>>) =>
        LET n == Len(collection)
            m == IF request.top_k <= n THEN request.top_k ELSE n
            d == results.distances[1]
        IN  /\ Len(Retrieved) = m
            /\ Len(RetrievedMeta) = m
            /\ \A i \in 1..m :
                  d[i] = Distance(embedder[request.query], embedder[Retrieved[i]])
            /\ \A i \in 1..(m - 1) : d[i] <= d[i + 1]
            /\ Cardinality(Headers(returned.context)) = m
            /\ \A i \in 1..m :
                  /\ BlockRank(returned.context, i) = RankText[i]
                  /\ BlockSource(returned.context, i) = RetrievedMeta[i].source
                  /\ BlockText(returned.context, i) = Retrieved[i]

\* two of three records were retrieved, the nearer first, and the nearest is
\* not the first record of the store
C4_Witness ==
    /\ pc = "answered"
    /\ Len(collection) = 3
    /\ request.top_k = 2
    /\ results.distances[1] = <<0, 1>>
    /\ Retrieved[1] # collection[1].document
    /\ BlockText(returned.context, 1) = Retrieved[1]

\* the number of times a (text, source, type) occurs
CountInStore(doc, meta) ==
    Cardinality({j \in 1..Len(collection) :
        collection[j].document = doc /\ collection[j].metadata = meta})
CountInContext(doc, meta) ==
    Cardinality({i \in 1..Cardinality(Headers(returned.context)) :
        /\ BlockText(returned.context, i) = doc
        /\ BlockSource(returned.context, i) = meta.source
        /\ BlockType(returned.context, i) = meta.type})

\* C5: when k is at least the index size, retrieval returns every indexed
\* chunk exactly once and raises nothing.
C5_AllRecordsOnce ==
    (pc = "answered" /\ request.top_k >= Len(collection)) =>
        /\ ~returned.raised
        /\ Len(Retrieved) = Len(collection)
        /\ Cardinality(Headers(returned.context)) = Len(collection)
        /\ \A j \in 1..Len(collection) :
              CountInContext(collection[j].document, collection[j].metadata)
                = CountInStore(collection[j].document, collection[j].metadata)
        /\ returned.second.type = "list[dict]" =>
              \A j \in 1..Len(collection) :
                  Cardinality({i \in 1..Len(returned.second.value) :
                                  returned.second.value[i] = collection[j].metadata})
                    = Cardinality({i \in 1..Len(collection) :
                                  collection[i].metadata = collection[j].metadata})

\* more was asked for than a store of two different records holds
C5_Witness ==
    /\ pc = "answered"
    /\ Len(collection) = 2
    /\ request.top_k = 3
    /\ collection[1].document # collection[2].document
    /\ Cardinality(Headers(returned.context)) = 2

\* C6: from an empty collection retrieval returns an empty context block and
\* an empty citation/metadata list, and raises nothing.
C6_EmptyStore ==
    (pc = "answered" /\ collection = <<>>) =>
        /\ ~returned.raised
        /\ returned.context = <<>>
        /\ returned.second.value = <<>>

C6_Witness ==
    /\ pc = "answered"
    /\ collection = <<>>
    /\ request.top_k = 2
    /\ request.caller = "rag_utils"

RECURSIVE Rendering(_, _, _)
\* the blocks from the i-th on: '[i] (type) Source: source', newline, text,
\* newline; a newline between two blocks, so that a blank line parts them
Rendering(docs, metas, i) ==
    IF i > Len(docs) THEN <<>>
    ELSE <<"[", RankText[i], "]", " ", "(">> \o metas[i].type
         \o <<")", " ", "Source:", " ">> \o metas[i].source
         \o <<"\n">> \o docs[i] \o <<"\n">>
         \o (IF i < Len(docs) THEN <<"\n">> ELSE <<>>)
         \o Rendering(docs, metas, i + 1)

TwoResultExample ==
    /\ Len(Retrieved) = 2
    /\ RetrievedMeta[1] = [source |-> <<"a", ".py">>, type |-> <<"function">>]
    /\ RetrievedMeta[2] = [source |-> <<"b", ".md">>, type |-> <<"markdown">>]

\* C7: the i-th retrieved chunk is rendered '[i] (type) Source: source',
\* newline, text, newline, the blocks are joined with blank lines, and the
\* ranks count from 1; the two-result example renders literally.
C7_Rendering ==
    pc = "answered" =>
        /\ returned.context = Rendering(Retrieved, RetrievedMeta, 1)
        /\ TwoResultExample =>
              returned.context =
                <<"[", "1", "]", " ", "(", "function", ")", " ", "Source:", " ",
                  "a", ".py", "\n">> \o Retrieved[1] \o <<"\n", "\n">>
                \o <<"[", "2", "]", " ", "(", "markdown", ")", " ", "Source:", " ",
                     "b", ".md", "\n">> \o Retrieved[2] \o <<"\n">>

C7_Witness ==
    /\ pc = "answered"
    /\ request.caller = "rag_utils"
    /\ TwoResultExample
    /\ Retrieved = <<<<"def", " ", "f">>, <<"x", "\n", "y">>>>
    /\ Len(returned.context) = 35

RECURSIVE CitationLines(_, _)
\* the lines '[i] source' from the i-th on, a newline between two
CitationLines(metas, i) ==
    IF i > Len(metas) THEN <<>>
    ELSE <<"[", RankText[i], "]", " ">> \o metas[i].source
         \o (IF i < Len(metas) THEN <<"\n">> ELSE <<>>)
         \o CitationLines(metas, i + 1)

C9_OrderPreserving ==
    pc = "answered" =>
        /\ Cardinality(Headers(returned.context)) = Len(Retrieved)
        /\ \A i \in 1..Len(Retrieved) :
              /\ BlockText(returned.context, i) = Retrieved[i]
              /\ BlockSource(returned.context, i) = RetrievedMeta[i].source
              /\ BlockType(returned.context, i) = RetrievedMeta[i].type

\* two chunks of the same text and source were retrieved and both are shown
C9_Witness ==
    /\ pc = "answered"
    /\ Len(Retrieved) = 2
    /\ Retrieved[1] = Retrieved[2]
    /\ RetrievedMeta[1] = RetrievedMeta[2]
    /\ Retrieved[1] # <<>>
    /\ Cardinality(Headers(returned.context)) = 2

----------------------------------------------------------------------------
(* Index construction: build_index.py *)

\* most chunks of a batch, besides the 128 of the script
MaxBatch == 3
\* how many times the scripts are started
MaxRuns == 2

\* chunks[i:i+batch_size-1]: a slice that loses the last chunk of the batch
BatchOfShort(cs, i, n) ==
    SubSeq(cs, i + 1, Min({i + n - 1, Len(cs)}))

\* chunks[i:i+batch_size]
BatchOf(cs, i, n) ==
    SubSeq(cs, i + 1, Min({i + n, Len(cs)}))

\* ids numbered within the batch: f"chunk_{j}"
BatchRecordsLocalIds(i, batch) ==
    [j \in 1..Len(batch) |-> StoreRecord(j - 1, batch[j])]

\* docs, metadatas, ids and embeddings of a batch, one record per chunk:
\* the id of the j-th chunk of the batch (j from 0) is f"chunk_{i+j}"
BatchRecords(i, batch) ==
    [j \in 1..Len(batch) |-> StoreRecord(i + j - 1, batch[j])]

\* the ids of a list of records
IdsOf(records) == [j \in 1..Len(records) |-> records[j].id]

\* collection.add: the records are appended; a record whose id the collection
\* already holds is not added and the record held stays as it is
CollectionAdd(coll, records) ==
    coll \o SelectSeq(records,
                      LAMBDA r : \A n \in 1..Len(coll) : coll[n].id # r.id)

\* print(f"Loaded ..."), the model and the client are loaded,
\* get_or_create_collection opens the collection with the records it holds
StartIndex ==
    /\ pc = "loaded"
    /\ pc' = "indexing"
    /\ batch_i' = 0
    /\ added' = <<>>
    /\ store_before' = collection
    /\ UNCHANGED <<walkVars, logVars, queryVars, batch_size, complete, run,
                   first_run, inferVars, sessions, app>>

\* one turn of the batch loop
IndexBatch ==
    /\ pc = "indexing"
    /\ batch_i < Len(chunks)
    /\ LET records == BatchRecords(batch_i, BatchOf(chunks, batch_i, batch_size))
       IN  /\ collection' = CollectionAdd(collection, records)
           /\ added' = added \o IdsOf(records)
    /\ batch_i' = batch_i + batch_size
    /\ UNCHANGED <<pc, walkVars, logVars, embedder, request, results, returned,
                   batch_size, complete, store_before, run, first_run,
                   inferVars, sessions, app>>

\* a loop that catches the exception of a batch and goes on to the next
BatchRaisesAndIsSkipped ==
    /\ pc = "indexing"
    /\ batch_i < Len(chunks)
    /\ batch_i' = batch_i + batch_size
    /\ UNCHANGED <<pc, walkVars, logVars, queryVars, batch_size, added,
                   complete, store_before, run, first_run, inferVars, sessions, app>>

\* embedder.encode or collection.add raises: nothing catches the exception,
\* the script ends with the traceback; of the failing batch nothing is stored
BatchRaises ==
    /\ pc = "indexing"
    /\ batch_i < Len(chunks)
    /\ pc' = "index_failed"
    /\ UNCHANGED <<walkVars, logVars, queryVars, indexVars, inferVars, sessions, app>>

\* range(0, len(chunks), batch_size) is exhausted: the completion message
IndexDone ==
    /\ pc = "indexing"
    /\ batch_i >= Len(chunks)
    /\ complete' = TRUE
    /\ pc' = "indexed"
    /\ UNCHANGED <<walkVars, logVars, queryVars, batch_size, batch_i, added,
                   store_before, run, first_run, inferVars, sessions, app>>

\* the operator starts the scripts again: new processes, whose variables are
\* fresh; the folder, chunks.jsonl and the persisted store are what they were
RunAgain ==
    /\ pc \in {"indexed", "index_failed"}
    /\ run < MaxRuns
    /\ run' = run + 1
    /\ first_run' = IF run = 1
                    THEN [pc |-> pc, wi |-> wi, store |-> collection]
                    ELSE first_run
    /\ pc' = "idle"
    /\ fi' = 1
    /\ all_chunks' = <<>>
    /\ logged' = <<>>
    /\ wi' = 0
    /\ chunks' = <<>>
    /\ batch_i' = 0
    /\ added' = <<>>
    /\ complete' = FALSE
    /\ UNCHANGED <<folder, logfile, queryVars, batch_size, store_before,
                   inferVars, sessions, app>>

\* the files the index is built from: one of two chunks, one of one
IndexFiles ==
    {File(<<"a", ".py">>, <<"x", "\n", "def", " ", "x">>, <<>>, <<>>, 0),
     File(<<"b", ".md">>, <<"y">>, <<>>, <<>>, 0)}

IndexFolders ==
    {fs \in SeqsUpTo(IndexFiles, MaxFiles) : DistinctNames(fs)}

\* the chunk log of an earlier run over other files, whose records the
\* persisted store may hold when the scripts start
PriorChunkLists ==
    {<<>>,
     <<[text |-> <<"o", "l", "d">>, source |-> <<"old", ".md">>,
        type |-> <<"markdown">>]>>}

IndexQueries == {<<"x">>, <<"how", " ", "x">>}

\* every text the embedding model is asked to encode
IndexTexts ==
    {c.text : c \in UNION {{Solo(f)[n] : n \in 1..Len(Solo(f))} : f \in IndexFiles}}
    \cup {cs[1].text : cs \in PriorChunkLists \ {<<>>}}
    \cup IndexQueries

\* an embedding model that maps every text to one point, and one that tells
\* texts apart
IndexEmbedders ==
    {[t \in IndexTexts |-> 0], [t \in IndexTexts |-> Len(t) % 2]}

InitIndex ==
    /\ pc = "idle"
    /\ folder \in IndexFolders
    /\ fi = 1
    /\ all_chunks = <<>>
    /\ logged = <<>>
    /\ logfile = <<>>
    /\ wi = 0
    /\ chunks = <<>>
    /\ embedder \in IndexEmbedders
    /\ \E cs \in PriorChunkLists : collection = StoreOf(cs)
    /\ request = NoRequest
    /\ results = NoResults
    /\ returned = NoReturn
    /\ batch_size \in (1..MaxBatch) \cup {BatchSize}
    /\ batch_i = 0
    /\ added = <<>>
    /\ complete = FALSE
    /\ store_before = <<>>
    /\ run = 1
    /\ first_run = NoFirst
    /\ NotInferring
    /\ sessions = <<>>
    /\ app = NoApp

NextIndex ==
    \/ StartChunker
    \/ WalkPy
    \/ WalkMd
    \/ WalkReturn
    \/ OpenLog
    \/ WriteChunk
    \/ WriteDone
    \/ ReadLog
    \/ StartIndex
    \/ IndexBatch
    \/ BatchRaises
    \/ IndexDone
    \/ RunAgain

SpecIndex == InitIndex /\ [][NextIndex]_vars

----------------------------------------------------------------------------
(* Properties of index construction *)

\* the ranking of a whole store for a query: the ids, nearest first
Ranking(coll, q) ==
    LET res == CollectionQuery(coll, Encode(q), Len(coll))
        at == [p \in 1..Len(coll) |->
                  CHOOSE n \in 1..Len(coll) : RankOf(coll, Encode(q), n) = p]
    IN  [p \in 1..Len(coll) |->
            [id |-> coll[at[p]].id, document |-> res.documents[1][p],
             metadata |-> res.metadatas[1][p]]]

\* C12: when the chunker and the indexer have run to their end over a folder
\* and both run to their end a second time over the unchanged folder and the
\* same persisted store, the store holds as many records as after the first
\* run and ranks them alike for every query of the query set.
C12_RebuildIdempotent ==
    (/\ run >= 2
     /\ pc = "indexed"
     /\ wi > 0
     /\ first_run.pc = "indexed"
     /\ first_run.wi > 0) =>
        /\ Len(collection) = Len(first_run.store)
        /\ \A query \in IndexQueries :
              Ranking(collection, query) = Ranking(first_run.store, query)

\* both runs chunked and indexed a folder of several chunks in several batches
C12_Witness ==
    /\ run = 2
    /\ pc = "indexed"
    /\ wi > 0
    /\ first_run.pc = "indexed"
    /\ first_run.wi > 0
    /\ Len(chunks) >= 3
    /\ batch_size < Len(chunks)
    /\ Len(collection) >= 3

\* the decimal numeral of a number below 100
Numeral(n) ==
    LET d == <<"0", "1", "2", "3", "4", "5", "6", "7", "8", "9">>
    IN  IF n < 10 THEN <<d[n + 1]>> ELSE <<d[(n \div 10) + 1], d[(n % 10) + 1]>>

\* the records of the whole log, chunk g (from 0) under the id chunk_<g>
WholeLogRecords ==
    [g \in 1..Len(chunks) |->
        [id |-> <<"chunk_">> \o Numeral(g - 1),
         document |-> chunks[g].text,
         metadata |-> [source |-> chunks[g].source, type |-> chunks[g].type],
         embedding |-> embedder[chunks[g].text]]]

\* C13: whatever the batch size, a run that completes into an empty store
\* leaves the records a single batch of the whole log leaves: the same ids,
\* texts, metadata and embeddings in the same order, hence the same rankings.
C13_BatchBoundaries ==
    (pc = "indexed" /\ store_before = <<>>) =>
        /\ collection = WholeLogRecords
        /\ collection = CollectionAdd(<<>>, BatchRecords(0, chunks))

\* a log that does not divide into whole batches was indexed in several
C13_Witness ==
    /\ pc = "indexed"
    /\ store_before = <<>>
    /\ batch_size = 2
    /\ Len(chunks) = 3
    /\ Len(collection) = 3

\* C14: the ids a run hands to the store are chunk_0, chunk_1, ... in the
\* order of the chunks of the log, one per chunk, pairwise distinct across the
\* batches, whatever the batch size.
C14_ChunkIds ==
    (pc \in {"indexing", "indexed", "index_failed"}) =>
        /\ Len(added) = Min({batch_i, Len(chunks)})
        /\ \A g \in 1..Len(added) : added[g] = <<"chunk_">> \o Numeral(g - 1)
        /\ \A g, h \in 1..Len(added) : g # h => added[g] # added[h]
        /\ pc = "indexed" => Len(added) = Len(chunks)

\* ids given across a batch boundary
C14_Witness ==
    /\ pc = "indexed"
    /\ batch_size = 2
    /\ Len(chunks) >= 3
    /\ added[3] = <<"chunk_", "2">>

\* the records a run has stored once the batches before offset i are added
StoredUpTo(i) ==
    CollectionAdd(store_before, SubSeq(WholeLogRecords, 1, Min({i, Len(chunks)})))

\* C15: a batch whose embedding or insertion raises ends the run there: the
\* store and the ids handed to it are those of the batches before it, the
\* completion message is not printed; and the message is printed only when
\* every chunk of the log was handed to the store.
C15_FailureAborts ==
    /\ pc = "index_failed" =>
          /\ ~complete
          /\ batch_i < Len(chunks)
          /\ Len(added) = batch_i
          /\ collection = StoredUpTo(batch_i)
    /\ complete => (pc = "indexed" /\ Len(added) = Len(chunks))

\* the second batch of a run raised after the first was stored
C15_Witness ==
    /\ pc = "index_failed"
    /\ batch_i > 0
    /\ batch_i + batch_size < Len(chunks)
    /\ ~complete
    /\ Len(collection) > Len(store_before)

\* C16: after a run that completes the store holds exactly one record per
\* chunk of the log this run read, with that chunk's text and metadata, and
\* no record of an earlier run, whatever it held before.
C16_RebuiltWholesale ==
    pc = "indexed" =>
        /\ Len(collection) = Len(chunks)
        /\ \A g \in 1..Len(chunks) :
              \E n \in 1..Len(collection) :
                 /\ collection[n].id = WholeLogRecords[g].id
                 /\ collection[n].document = chunks[g].text
                 /\ collection[n].metadata = WholeLogRecords[g].metadata

\* C16, as far as the code keeps it: into a store that was empty, or that
\* holds only records of the same ids and contents, a run that completes
\* leaves exactly the records of its log.
C16_RebuiltFromEmpty ==
    (pc = "indexed" /\ store_before = <<>>) =>
        /\ Len(collection) = Len(chunks)
        /\ \A g \in 1..Len(chunks) :
              /\ collection[g].id = WholeLogRecords[g].id
              /\ collection[g].document = chunks[g].text
              /\ collection[g].metadata = WholeLogRecords[g].metadata

----------------------------------------------------------------------------
(* Inference: llm_utils.py *)

\* most choices of a response of the server
MaxChoices == 2

Prompts ==
    {<<>>, <<"explain", " ", "x">>, <<"debug", "\n", "def", " ", "x">>,
     <<"generate", " ", "x">>}

\* completion texts of the server, and the messages of the exceptions the
\* client library raises (server unreachable, timeout, a body that is no JSON)
Completions == {<<>>, <<"x">>, <<"Error parsing response: ">>}
ClientErrors ==
    {<<"Connection refused">>, <<"Request timed out">>, <<"Expecting value">>}

Choice(text) == [message |-> [content |-> text]]

\* f"Error parsing response: {e}"
ErrorString(e) == <<"Error parsing response: ">> \o e

\* an except clause that lets the exception go on to the caller
Reraised(e) == [raised |-> TRUE, value |-> e]

\* except Exception as e: return f"Error parsing response: {e}"
Caught(e) == [raised |-> FALSE, value |-> ErrorString(e)]

\* return response.choices[0].message.content
FirstContent(response) ==
    [raised |-> FALSE, value |-> response.choices[1].message.content]

\* lmstudio_inference(prompt) is called
CallInference ==
    /\ pc = "infer_ready"
    /\ \E p \in Prompts : prompt' = p
    /\ pc' = "infer_create"
    /\ UNCHANGED <<walkVars, logVars, queryVars, indexVars, server, answer,
                   sessions, app>>

\* openai.ChatCompletion.create returns the response of the server
CreateReturns ==
    /\ pc = "infer_create"
    /\ \E texts \in SeqsUpTo(Completions, MaxChoices) :
          server' = [outcome |-> "response",
                     choices |-> [n \in 1..Len(texts) |-> Choice(texts[n])],
                     error |-> <<>>]
    /\ pc' = "infer_response"
    /\ UNCHANGED <<walkVars, logVars, queryVars, indexVars, prompt, answer,
                   sessions, app>>

\* openai.ChatCompletion.create raises
CreateRaises ==
    /\ pc = "infer_create"
    /\ \E e \in ClientErrors :
          server' = [outcome |-> "raised", choices |-> <<>>, error |-> e]
    /\ pc' = "infer_except"
    /\ UNCHANGED <<walkVars, logVars, queryVars, indexVars, prompt, answer,
                   sessions, app>>

\* response.choices[0] of a response without choices raises IndexError
NoChoiceRaises ==
    /\ pc = "infer_response"
    /\ server.choices = <<>>
    /\ server' = [server EXCEPT !.error = <<"list index out of range">>]
    /\ pc' = "infer_except"
    /\ UNCHANGED <<walkVars, logVars, queryVars, indexVars, prompt, answer,
                   sessions, app>>

\* the return of the try block
ReturnContent ==
    /\ pc = "infer_response"
    /\ server.choices # <<>>
    /\ answer' = FirstContent(server)
    /\ pc' = "inferred"
    /\ UNCHANGED <<walkVars, logVars, queryVars, indexVars, prompt, server,
                   sessions, app>>

\* the except clause
ReturnError ==
    /\ pc = "infer_except"
    /\ answer' = Caught(server.error)
    /\ pc' = "inferred"
    /\ UNCHANGED <<walkVars, logVars, queryVars, indexVars, prompt, server,
                   sessions, app>>

InitInfer ==
    /\ pc = "infer_ready"
    /\ folder = <<>>
    /\ fi = 1
    /\ all_chunks = <<>>
    /\ logged = <<>>
    /\ logfile = <<>>
    /\ wi = 0
    /\ chunks = <<>>
    /\ embedder = [t \in EmbedTexts |-> 0]
    /\ collection = <<>>
    /\ request = NoRequest
    /\ results = NoResults
    /\ returned = NoReturn
    /\ NotIndexing
    /\ NotInferring
    /\ sessions = <<>>
    /\ app = NoApp

NextInfer ==
    \/ CallInference
    \/ CreateReturns
    \/ CreateRaises
    \/ NoChoiceRaises
    \/ ReturnContent
    \/ ReturnError

SpecInfer == InitInfer /\ [][NextInfer]_vars

\* C17: lmstudio_inference never raises on a failure of the inference call.
\* When the call raises, or the response has no first choice to read, it
\* returns the text "Error parsing response: " followed by the message of the
\* exception; otherwise it returns the content of the first choice.
C17_ErrorsAsData ==
    pc = "inferred" =>
        /\ ~answer.raised
        /\ server.error # <<>> =>
              /\ SubSeq(answer.value, 1, 1) = <<"Error parsing response: ">>
              /\ SubSeq(answer.value, 2, Len(answer.value)) = server.error
        /\ server.error = <<>> =>
              /\ server.outcome = "response"
              /\ answer.value = Head(server.choices).message.content

\* the call raised and the error string with its message was returned
C17_Witness ==
    /\ pc = "inferred"
    /\ server.outcome = "raised"
    /\ prompt # <<>>
    /\ answer = [raised |-> FALSE,
                 value |-> <<"Error parsing response: ", "Connection refused">>]

----------------------------------------------------------------------------
(* Properties of retrieval under failure and concurrency *)

\* C18: when the embedding call or the store query raises, retrieve_context
\* raises to its caller and returns no context and no citations; and what it
\* returns otherwise is stored: every block of the context, and every
\* metadata record returned, is the text and metadata of a record of the
\* store.
C18_ErrorsSurfaced ==
    /\ pc = "raised" =>
          /\ returned.raised
          /\ returned.context = <<>>
          /\ returned.second.type = "exception"
          /\ results = NoResults
    /\ pc = "answered" =>
          /\ ~returned.raised
          /\ \A b \in 1..Cardinality(Headers(returned.context)) :
                \E n \in 1..Len(collection) :
                   /\ collection[n].document = BlockText(returned.context, b)
                   /\ collection[n].metadata.source = BlockSource(returned.context, b)
                   /\ collection[n].metadata.type = BlockType(returned.context, b)
                   /\ returned.second.type = "list[dict]" =>
                         returned.second.value[b] = collection[n].metadata
          /\ Cardinality(Headers(returned.context)) <= Len(collection)

\* the query of a store that holds records raised
C18_Witness ==
    /\ pc = "raised"
    /\ Len(collection) >= 2
    /\ request.top_k >= 1
    /\ returned.raised
    /\ returned.second.value = <<"query", " ", "failed">>

\* Concurrent retrieval: the sessions of the Streamlit app, each in its own
\* thread, call retrieve_context of rag_utils.py on the embedder and the
\* collection the module loaded once.
Sessions == {1, 2}

NoSession ==
    [pc |-> "ready", request |-> NoRequest, results |-> NoResults,
     returned |-> NoReturn]

\* a retrieve_context that keeps the results in a module-level variable which
\* every session writes and reads
ResultsShared(s) == results

\* results is a local variable of the call
ResultsSeenBy(s) == sessions[s].results

\* a session calls retrieve_context(query_text, top_k=top_k)
SessionCall ==
    /\ pc = "serving"
    /\ \E s \in Sessions, q \in Queries, k \in 1..MaxK :
          /\ sessions[s].pc = "ready"
          /\ sessions' = [sessions EXCEPT ![s] =
                [@ EXCEPT !.pc = "query",
                          !.request = [caller |-> "rag_utils", query |-> q,
                                       top_k |-> k]]]
    /\ UNCHANGED <<pc, walkVars, logVars, queryVars, indexVars, inferVars, app>>

\* the session encodes its query and queries the collection.  The answer is
\* a local of the call; results records the latest answer the store gave to
\* any session, which no session reads
SessionQuery ==
    /\ pc = "serving"
    /\ \E s \in Sessions :
          /\ sessions[s].pc = "query"
          /\ LET res == CollectionQuery(collection,
                                        Encode(sessions[s].request.query),
                                        sessions[s].request.top_k)
             IN  /\ sessions' = [sessions EXCEPT ![s] =
                        [@ EXCEPT !.pc = "assemble", !.results = res]]
                 /\ results' = res
    /\ UNCHANGED <<pc, walkVars, logVars, embedder, collection, request,
                   returned, indexVars, inferVars, app>>

\* the session assembles the context and returns
SessionAssemble ==
    /\ pc = "serving"
    /\ \E s \in Sessions :
          /\ sessions[s].pc = "assemble"
          /\ sessions' = [sessions EXCEPT ![s] =
                [@ EXCEPT !.pc = "answered",
                          !.returned = ReturnUtils(ResultsSeenBy(s))]]
    /\ UNCHANGED <<pc, walkVars, logVars, queryVars, indexVars, inferVars, app>>

\* the stores the sessions are served from
ServedChunkLists ==
    LET f == [text |-> <<"def", " ", "f">>, source |-> <<"a", ".py">>,
              type |-> <<"function">>]
        m == [text |-> <<"x", "\n", "y">>, source |-> <<"b", ".md">>,
              type |-> <<"markdown">>]
    IN  {<<>>, <<f, m>>, <<m, f, m>>}

InitServe ==
    /\ pc = "serving"
    /\ folder = <<>>
    /\ fi = 1
    /\ all_chunks = <<>>
    /\ logged = <<>>
    /\ logfile = <<>>
    /\ wi = 0
    /\ chunks = <<>>
    /\ embedder \in [EmbedTexts -> Points]
    /\ \E cs \in ServedChunkLists : collection = StoreOf(cs)
    /\ request = NoRequest
    /\ results = NoResults
    /\ returned = NoReturn
    /\ NotIndexing
    /\ NotInferring
    /\ sessions = [s \in Sessions |-> NoSession]
    /\ app = NoApp

NextServe ==
    \/ SessionCall
    \/ SessionQuery
    \/ SessionAssemble

SpecServe == InitServe /\ [][NextServe]_vars

\* what retrieve_context returns for a request when it runs alone
AloneResult(req) ==
    ReturnUtils(CollectionQuery(collection, embedder[req.query], req.top_k))

\* C19: no step of a retrieval changes the collection or the embedder, and
\* however the calls of concurrent sessions interleave, each returns what it
\* returns when it runs alone against the same index.
C19_ReadOnlyConcurrent ==
    /\ [][collection' = collection /\ embedder' = embedder]_vars
    /\ [](\A s \in DOMAIN sessions :
             sessions[s].pc = "answered" =>
                sessions[s].returned = AloneResult(sessions[s].request))

\* session 1 has returned; session 2, which queried the store before session
\* 1 did and got other results, has not yet assembled its context
C19_Witness ==
    /\ pc = "serving"
    /\ sessions[1].pc = "answered"
    /\ sessions[2].pc = "assemble"
    /\ results = sessions[1].results
    /\ sessions[2].results # sessions[1].results
    /\ sessions[1].returned.context # <<>>

----------------------------------------------------------------------------
(* Properties of the format dispatch and of the single chunkers *)

\* the last lexeme of a file name: its extension
Extension(name) == name[Len(name)]

\* C21: a file whose name ends in none of .ipynb, .py, .md, .pdf contributes
\* no chunk and no "Error reading" line, readable or not; a readable file
\* with one of these extensions contributes the chunks of the chunker of
\* that extension and of no other.
C21_FormatDispatch ==
    \A j \in 1..Len(folder) :
        j < fi =>
            LET f == folder[j]
                got == ChunksOf(f.name)
            IN  /\ Extension(f.name) \notin {".ipynb", ".py", ".md", ".pdf"} =>
                      /\ got = <<>>
                      /\ \A n \in 1..Len(logged) : logged[n] # f.name
                /\ (Extension(f.name) = ".ipynb" /\ f.fail = 0) =>
                      got = ChunkIpynb(f.name, f.cells)
                /\ (Extension(f.name) = ".py" /\ f.fail = 0) =>
                      got = ChunkPy(f.name, f.text)
                /\ (Extension(f.name) = ".md" /\ f.fail = 0) =>
                      got = ChunkMd(f.name, f.text)
                /\ (Extension(f.name) = ".pdf" /\ f.fail = 0) =>
                      got = PdfBlocks(BlankSplit(PdfText(f.pages)), f.name)

\* a file named a.py.md was chunked as markdown, next to a file e.pdf.bak
\* that holds a page long enough for a chunk and was skipped
C21_Witness ==
    /\ pc = "chunked"
    /\ \E j, k \in 1..Len(folder) :
          /\ folder[j].name = <<"a", ".py", ".md">>
          /\ folder[j].fail = 0
          /\ ChunksOf(folder[j].name) # <<>>
          /\ \A n \in 1..Len(ChunksOf(folder[j].name)) :
                ChunksOf(folder[j].name)[n].type = <<"markdown">>
          /\ folder[k].name = <<"e", ".pdf", ".bak">>
          /\ ChunksOf(folder[k].name) = <<>>

----------------------------------------------------------------------------
(* Properties of the empty query, of the log writer and of the app *)

\* C22: retrieval with the empty string as query raises nothing and returns
\* min(k, index size) chunks, which are the nearest to the embedding of the
\* empty string: no record of the store is nearer than the i-th chunk
\* returned except the i-1 returned before it.
C22_EmptyQuery ==
    (pc = "answered" /\ request.query = <<>>) =>
        LET n == Len(collection)
            m == IF request.top_k <= n THEN request.top_k ELSE n
            far(text) == Distance(embedder[<<>>], embedder[text])
        IN  /\ ~returned.raised
            /\ Cardinality(Headers(returned.context)) = m
            /\ Len(Retrieved) = m
            /\ \A b \in 1..m :
                  /\ BlockText(returned.context, b) = Retrieved[b]
                  /\ Cardinality({r \in 1..n :
                        far(collection[r].document) < far(Retrieved[b])}) <= b - 1
                  /\ \E r \in 1..n : collection[r].document = Retrieved[b]

\* the empty query took the nearer two of three records, the first record of
\* the store not among them
C22_Witness ==
    /\ pc = "answered"
    /\ request.query = <<>>
    /\ request.caller = "rag_utils"
    /\ request.top_k = 2
    /\ Len(collection) = 3
    /\ Cardinality(Headers(returned.context)) = 2
    /\ Distance(embedder[<<>>], embedder[collection[1].document]) = 1
    /\ Distance(embedder[<<>>], embedder[collection[2].document]) = 0
    /\ collection[1].document # Retrieved[1]
    /\ collection[1].document # Retrieved[2]

RECURSIVE LogOf(_)
\* the log of a chunk list: one JSON line per chunk
LogOf(cs) ==
    IF cs = <<>> THEN <<>>
    ELSE JsonDumps(Head(cs)) \o <<"\n">> \o LogOf(Tail(cs))

\* C23: whatever chunks.jsonl held before, when the writer of a run has
\* ended the log holds the lines of the chunks this run wrote, each once and
\* nothing else; so the log is a function of the folder alone and a run over
\* an unchanged folder leaves the same log.
C23_LogOverwritten ==
    /\ pc \in {"write", "written", "write_failed"} =>
          logfile = LogOf(SubSeq(all_chunks, 1, wi - 1))
    /\ pc = "written" => logfile = LogOf(all_chunks)

\* the first run wrote its log, and the second run over the unchanged folder
\* has written the same three lines in its place
C23_Witness ==
    /\ pc = "written"
    /\ run = 2
    /\ first_run.wi = 4
    /\ Len(all_chunks) = 3
    /\ Len(Lines(logfile)) = 3

\* the n-th definition boundary of a text, in file order
NthBoundary(s, n) ==
    CHOOSE i \in DefBoundaries(s) :
        Cardinality({k \in DefBoundaries(s) : k < i}) = n - 1

\* C24: every chunk of a code file is typed function, class or top-level;
\* the chunk of the block that begins at a 'def ' boundary is typed function,
\* at a 'class ' boundary class, and only the chunk of the code before the
\* first boundary is typed top-level.
C24_PyClassification ==
    \A j \in 1..Len(folder) :
        (j < fi /\ Extension(folder[j].name) = ".py" /\ folder[j].fail = 0) =>
            LET s == folder[j].text
                got == ChunksOf(folder[j].name)
                lead == LeadingBlock(s)
            IN  /\ Len(got) = lead + Cardinality(DefBoundaries(s))
                /\ \A n \in 1..Len(got) :
                      got[n].type \in {<<"function">>, <<"class">>, <<"top-level">>}
                /\ \A n \in 1..Cardinality(DefBoundaries(s)) :
                      got[lead + n].type =
                          IF s[NthBoundary(s, n)] = "def" THEN <<"function">>
                          ELSE <<"class">>
                /\ \A n \in 1..Len(got) :
                      got[n].type = <<"top-level">> => (n = 1 /\ lead = 1)

\* a block that begins at a boundary and holds text after its keyword
HasName(s, i) ==
    LET next == IF \E k \in DefBoundaries(s) : k > i
                THEN Min({k \in DefBoundaries(s) : k > i}) ELSE Len(s) + 1
    IN  \E k \in (i + 1)..(next - 1) : ~IsSpace(s[k])

\* C24, as far as the code keeps it: the classification is as stated for
\* every block whose keyword is followed by text before the next boundary.
C24_PyClassificationOfNamed ==
    \A j \in 1..Len(folder) :
        (j < fi /\ Extension(folder[j].name) = ".py" /\ folder[j].fail = 0) =>
            LET s == folder[j].text
                got == ChunksOf(folder[j].name)
                lead == LeadingBlock(s)
            IN  /\ Len(got) = lead + Cardinality(DefBoundaries(s))
                /\ \A n \in 1..Len(got) :
                      got[n].type \in {<<"function">>, <<"class">>, <<"top-level">>}
                /\ \A n \in 1..Cardinality(DefBoundaries(s)) :
                      HasName(s, NthBoundary(s, n)) =>
                          got[lead + n].type =
                              IF s[NthBoundary(s, n)] = "def" THEN <<"function">>
                              ELSE <<"class">>

\* C25: a readable notebook yields one chunk per cell, in cell order: the
\* text is the source of the cell as it is, the type the kind of the cell,
\* the source the path of the file.
C25_OneChunkPerCell ==
    \A j \in 1..Len(folder) :
        (j < fi /\ Extension(folder[j].name) = ".ipynb" /\ folder[j].fail = 0) =>
            LET got == ChunksOf(folder[j].name)
                cells == folder[j].cells
            IN  /\ Len(got) = Len(cells)
                /\ \A n \in 1..Len(cells) :
                      /\ got[n].text = cells[n].source
                      /\ got[n].type = cells[n].cell_type
                      /\ got[n].source = folder[j].name

\* a notebook of a code cell and a markdown cell, one of them holding a blank
\* line and a definition, the other only whitespace, gave two chunks
C25_Witness ==
    /\ pc = "chunked"
    /\ Len(folder) = 1
    /\ Extension(folder[1].name) = ".ipynb"
    /\ Len(folder[1].cells) = 2
    /\ folder[1].cells[1] =
          [cell_type |-> <<"code">>, source |-> <<"x", "\n", "\n", "def", " ", "x">>]
    /\ folder[1].cells[2] = [cell_type |-> <<"markdown">>, source |-> <<" ", "\n">>]
    /\ Len(all_chunks) = 2

\* the positions of a markdown text that a separator covers: a run of
\* whitespace from a newline to a later newline, or a '#' at a line start
MdSeparated(s) ==
    {i \in 1..Len(s) :
        \/ \E a \in 1..i, b \in i..Len(s) :
              /\ a < b
              /\ s[a] = "\n"
              /\ s[b] = "\n"
              /\ \A k \in a..b : s[k] \in {" ", "\n", "\r", "\t"}
        \/ s[i] = "#" /\ (i = 1 \/ s[i - 1] = "\n")}

\* the blocks between the separators that hold more than whitespace: where
\* each starts and ends, in file order
MdBlockStarts(s) ==
    {i \in 1..Len(s) \ MdSeparated(s) :
        /\ i = 1 \/ (i - 1) \in MdSeparated(s)
        /\ \E k \in i..Len(s) :
              /\ s[k] \notin {" ", "\n", "\r", "\t"}
              /\ \A m \in i..k : m \notin MdSeparated(s)}
MdBlockEnd(s, i) ==
    Max({k \in i..Len(s) : \A m \in i..k : m \notin MdSeparated(s)})
NthMdBlock(s, n) ==
    LET i == CHOOSE p \in MdBlockStarts(s) :
                Cardinality({q \in MdBlockStarts(s) : q < p}) = n - 1
        block == SubSeq(s, i, MdBlockEnd(s, i))
        inked == {k \in 1..Len(block) : block[k] \notin {" ", "\n", "\r", "\t"}}
    IN  SubSeq(block, Min(inked), Max(inked))

\* C26: the chunks of a readable markdown file are the blocks of its content
\* between the blank-line runs and the '#' that begin a line, trimmed, the
\* empty ones dropped, in file order and typed markdown; no chunk holds a
\* blank-line run, and none a '#' at a line start after its first character.
C26_MarkdownSplit ==
    \A j \in 1..Len(folder) :
        (j < fi /\ Extension(folder[j].name) = ".md" /\ folder[j].fail = 0) =>
            LET s == folder[j].text
                got == ChunksOf(folder[j].name)
            IN  /\ Len(got) = Cardinality(MdBlockStarts(s))
                /\ \A n \in 1..Len(got) :
                      /\ got[n].text = NthMdBlock(s, n)
                      /\ got[n].type = <<"markdown">>
                      /\ got[n].source = folder[j].name
                      /\ MdSeparated(got[n].text) \subseteq {1}

\* a file of a heading line, a blank line and a line of text gave the two
\* chunks "x" and "x", the '#' and the blank line in neither
C26_Witness ==
    /\ pc = "chunked"
    /\ Len(folder) = 1
    /\ folder[1].text = <<"#", "x", "\n", "\n", "x">>
    /\ Extension(folder[1].name) = ".md"
    /\ Len(all_chunks) = 2
    /\ all_chunks[1].text = <<"x">>

RECURSIVE Ink(_, _, _)
\* the characters of s from position i on that are no whitespace and stand at
\* none of the positions `removed`
Ink(s, removed, i) ==
    IF i > Len(s) THEN <<>>
    ELSE (IF i \in removed \/ s[i] \in {" ", "\n", "\r", "\t"} THEN <<>>
          ELSE <<s[i]>>)
         \o Ink(s, removed, i + 1)

RECURSIVE TextsOf(_)
\* the texts of a chunk list, one after the other
TextsOf(cs) == IF cs = <<>> THEN <<>> ELSE Head(cs).text \o TextsOf(Tail(cs))

\* the '#' that begin a line
HeadingHashes(s) == {i \in 1..Len(s) : s[i] = "#" /\ (i = 1 \/ s[i - 1] = "\n")}

\* a text occurs in s as it is
OccursIn(t, s) == \E i \in 1..(Len(s) + 1) : SubSeq(s, i, i + Len(t) - 1) = t

\* C27: of a markdown file the chunks hold every character that is not
\* whitespace except the '#' that begins a line: exactly that one character
\* per heading line is lost, a second '#' stays.  Of a code file the chunks
\* hold every character that is not whitespace, and each chunk is a piece of
\* the content as it is.
C27_HashConsumed ==
    \A j \in 1..Len(folder) :
        (j < fi /\ folder[j].fail = 0) =>
            LET s == folder[j].text
                got == ChunksOf(folder[j].name)
            IN  /\ Extension(folder[j].name) = ".md" =>
                      Ink(TextsOf(got), {}, 1) = Ink(s, HeadingHashes(s), 1)
                /\ Extension(folder[j].name) = ".py" =>
                      /\ Ink(TextsOf(got), {}, 1) = Ink(s, {}, 1)
                      /\ \A n \in 1..Len(got) : OccursIn(got[n].text, s)

\* the line '##x' gave the chunk '#x', and the line '#' after it none
C27_Witness ==
    /\ pc = "chunked"
    /\ Len(folder) = 1
    /\ Extension(folder[1].name) = ".md"
    /\ folder[1].text = <<"#", "#", "x", "\n", "#">>
    /\ Len(all_chunks) = 1
    /\ all_chunks[1].text = <<"#", "x">>

----------------------------------------------------------------------------
(* Properties of the index a run leaves *)

\* the state property of C28: what the store holds after a complete run
CompleteIndex ==
    (pc = "indexed" /\ store_before = <<>>) =>
        /\ Len(collection) = Len(chunks)
        /\ Len(added) = Len(chunks)
        /\ \A g \in 1..Len(chunks) :
              LET held == {n \in 1..Len(collection) :
                              collection[n].id = <<"chunk_">> \o Numeral(g - 1)}
              IN  /\ Cardinality(held) = 1
                  /\ \A n \in held :
                        /\ collection[n].document = chunks[g].text
                        /\ DOMAIN collection[n].metadata = {"source", "type"}
                        /\ collection[n].metadata.source = chunks[g].source
                        /\ collection[n].metadata.type = chunks[g].type
        /\ chunks = <<>> => (added = <<>> /\ collection = <<>>)

\* the step property of C28: what one batch hands to the store
BatchStep ==
    (pc = "indexing" /\ added' # added) =>
        LET from == Len(added)
            k == Len(added') - Len(added)
        IN  /\ from % batch_size = 0
            /\ k \in 1..batch_size
            /\ k < batch_size => from + k = Len(chunks)
            /\ from + k <= Len(chunks)
            /\ added' = added \o [j \in 1..k |-> <<"chunk_">> \o Numeral(from + j - 1)]
            /\ store_before = <<>> =>
                  collection' = collection \o SubSeq(WholeLogRecords, from + 1, from + k)

\* C28: a run that completes into an empty store leaves one record per chunk
\* of the log, chunk g (from 0) under the id chunk_<g> with its text as the
\* document and its source and type, and nothing else, as the metadata; every
\* batch takes the chunks that follow those of the batch before it, batch_size
\* (128 in the script) of them, the last one between 1 and batch_size; a run
\* over an empty log hands nothing to the store.
C28_CompleteIndex == [][BatchStep]_vars /\ []CompleteIndex

\* three chunks went into an empty store in a batch of two and a batch of one
C28_Witness ==
    /\ pc = "indexed"
    /\ store_before = <<>>
    /\ batch_size = 2
    /\ Len(chunks) = 3
    /\ added = <<<<"chunk_", "0">>, <<"chunk_", "1">>, <<"chunk_", "2">>>>
    /\ collection[3].document = chunks[3].text
    /\ run = 1

\* a run over an empty log ran to its end
C28_EmptyLogReached ==
    /\ pc = "indexed"
    /\ chunks = <<>>
    /\ wi = 0
    /\ store_before = <<>>

\* the ids the store holds
HeldIds == {collection[n].id : n \in 1..Len(collection)}

\* the partial index answers the retriever: for every query and every count
\* the store returns its nearest records, as many as asked or as it holds
PartialQueryable ==
    \A query \in IndexQueries : \A k \in 1..MaxK :
        LET res == CollectionQuery(collection, Encode(query), k)
        IN  /\ Len(res.documents[1]) = Min({k, Len(collection)})
            /\ \A p \in 1..Len(res.documents[1]) :
                  \E n \in 1..Len(collection) :
                     res.documents[1][p] = collection[n].document

\* C29: when a run fails at the batch of offset batch_i, the persisted store
\* holds the records of the batches before it, chunk_0 up to
\* chunk_<batch_i - 1> of this run's log in that order, and no record of
\* that batch or a later one; the retriever can query what is there.
C29_PartialIndex ==
    pc = "index_failed" =>
        /\ collection = SubSeq(WholeLogRecords, 1, batch_i)
        /\ \A g \in (batch_i + 1)..Len(chunks) :
              (<<"chunk_">> \o Numeral(g - 1)) \notin HeldIds
        /\ PartialQueryable

\* C29, as far as the code keeps it: a run that started on an empty store and
\* fails leaves the records of the batches before the failing one, inserted
\* in the order of the log, none of a later batch, and they can be queried.
C29_PartialIndexFromEmpty ==
    (pc = "index_failed" /\ store_before = <<>>) =>
        /\ collection = SubSeq(WholeLogRecords, 1, batch_i)
        /\ \A g \in (batch_i + 1)..Len(chunks) :
              (<<"chunk_">> \o Numeral(g - 1)) \notin HeldIds
        /\ PartialQueryable

\* a run on an empty store failed at its second batch
C29_FromEmptyReached ==
    /\ pc = "index_failed"
    /\ store_before = <<>>
    /\ batch_i > 0
    /\ Len(collection) = batch_i

----------------------------------------------------------------------------
(* The app: the button handler of app.py and the prompt templates *)

\* how many times the button is pressed
MaxRequests == 2

TaskTypes == {"Code Generation", "Code Correction (Hints)", "GPU Optimization"}

\* what the user types into the text areas
AppTasks == {<<>>, <<"how", " ", "x">>}
AppCodes == {<<>>, <<"def", " ", "f">>}

\* bool(v) of a value that is None or a str
Truthy(v) == ~v.none /\ v.str # <<>>

\* what str.format writes for a value
Formatted(v) == IF v.none THEN <<"None">> ELSE v.str

\* query_text = user_task or code_input: None when there is neither
QueryTextOrNone(user_task, code_input) ==
    IF Truthy(user_task) THEN user_task ELSE code_input

\* query_text = user_task if user_task else (code_input if code_input else "")
QueryText(user_task, code_input) ==
    IF Truthy(user_task) THEN user_task
    ELSE IF Truthy(code_input) THEN code_input
    ELSE Str(<<>>)

\* GEN_PROMPT.format(task=..., context=...); a lexeme stands for the fixed
\* text of the template between two fields
GenPrompt(task, context) ==
    <<"You are an expert Python tutor. [...] task: ">> \o Formatted(task)
    \o <<".", "\n", "Use PyTorch or RAPIDS where possible. [...]", "\n",
         "Context:", "\n">>
    \o context

\* CORRECT_PROMPT.format(code=..., context=...)
CorrectPrompt(code, context) ==
    <<"A student submitted this Python code:", "\n", "\n">> \o Formatted(code)
    \o <<"\n", "\n", "Using only the context below, analyze the code. [...]",
         "\n", "Context:", "\n">>
    \o context

\* GPU_PROMPT.format(code=..., context=...)
GpuPrompt(code, context) ==
    <<"Given this Python code for a data science/ML task:", "\n", "\n">>
    \o Formatted(code)
    \o <<"\n", "\n", "Using only the context below, suggest modifications [...]",
         "\n", "Context:", "\n">>
    \o context

\* the if/elif/else over task_type that builds the prompt
PromptFor(task_type, user_task, code_input, context) ==
    IF task_type = "Code Generation" THEN GenPrompt(user_task, context)
    ELSE IF task_type = "Code Correction (Hints)"
         THEN CorrectPrompt(code_input, context)
    ELSE GpuPrompt(code_input, context)

\* the form is filled in and "Get LLM Answer" is pressed: the script runs to
\* the call retrieve_context(query_text, top_k=top_k)
ClickButton ==
    /\ pc = "app_form"
    /\ app.request_n < MaxRequests
    /\ \E t \in TaskTypes, task \in AppTasks, code \in AppCodes, k \in 2..MaxK :
          LET user_task == Str(task)
              code_input == IF t = "Code Generation" THEN None ELSE Str(code)
              query_text == QueryText(user_task, code_input)
          IN  /\ app' = [app EXCEPT !.request_n = @ + 1,
                                    !.task_type = t,
                                    !.user_task = user_task,
                                    !.code_input = code_input,
                                    !.top_k = k,
                                    !.query_text = query_text,
                                    !.retrievals = @ + 1]
              /\ request' = [caller |-> "rag_utils", query |-> query_text.str,
                             top_k |-> k]
    /\ pc' = "query"
    /\ UNCHANGED <<walkVars, logVars, embedder, collection, results, returned,
                   indexVars, inferVars, sessions>>

\* retrieve_context raised: the handler has no try block, the script run ends
\* and the page shows the exception
RetrievalRaised ==
    /\ pc = "raised"
    /\ app' = [app EXCEPT !.page.traceback = returned.second.value]
    /\ pc' = "app_error"
    /\ UNCHANGED <<walkVars, logVars, queryVars, indexVars, inferVars, sessions>>

\* retrieve_context returned: the prompt is built and lmstudio_inference(prompt)
\* is called
BuildPrompt ==
    /\ pc = "answered"
    /\ app.retrievals > 0
    /\ prompt' = PromptFor(app.task_type, app.user_task, app.code_input,
                           returned.context)
    /\ app' = [app EXCEPT !.inferences = @ + 1]
    /\ pc' = "infer_create"
    /\ UNCHANGED <<walkVars, logVars, queryVars, indexVars, server, answer,
                   sessions>>

\* lmstudio_inference returned: the context, the answer and the sources are
\* written to the page
ShowAnswer ==
    /\ pc = "inferred"
    /\ ~answer.raised
    /\ app' = [app EXCEPT !.page =
                  [context |-> returned.context,
                   answer |-> answer.value,
                   sources |-> AppSources(returned.second.value),
                   traceback |-> <<>>]]
    /\ pc' = "app_shown"
    /\ UNCHANGED <<walkVars, logVars, queryVars, indexVars, inferVars, sessions>>

\* the next interaction: Streamlit runs the script again from the top, its
\* variables are fresh and the page is drawn anew
Rerun ==
    /\ pc \in {"app_shown", "app_error"}
    /\ app.request_n < MaxRequests
    /\ app' = [NoApp EXCEPT !.request_n = app.request_n]
    /\ request' = NoRequest
    /\ results' = NoResults
    /\ returned' = NoReturn
    /\ prompt' = <<>>
    /\ server' = NoServer
    /\ answer' = NoAnswer
    /\ pc' = "app_form"
    /\ UNCHANGED <<walkVars, logVars, embedder, collection, indexVars, sessions>>

InitApp ==
    /\ pc = "app_form"
    /\ folder = <<>>
    /\ fi = 1
    /\ all_chunks = <<>>
    /\ logged = <<>>
    /\ logfile = <<>>
    /\ wi = 0
    /\ chunks = <<>>
    /\ embedder = [t \in EmbedTexts |-> Len(t) % 2]
    /\ \E cs \in ServedChunkLists : collection = StoreOf(cs)
    /\ request = NoRequest
    /\ results = NoResults
    /\ returned = NoReturn
    /\ NotIndexing
    /\ NotInferring
    /\ sessions = <<>>
    /\ app = NoApp

NextApp ==
    \/ ClickButton
    \/ EncodeRaises
    \/ QueryRaises
    \/ QueryStore
    \/ AssembleUtils
    \/ RetrievalRaised
    \/ BuildPrompt
    \/ CreateReturns
    \/ CreateRaises
    \/ NoChoiceRaises
    \/ ReturnContent
    \/ ReturnError
    \/ ShowAnswer
    \/ Rerun

SpecApp == InitApp /\ [][NextApp]_vars

----------------------------------------------------------------------------
(* Properties of the app *)

\* the query text a request must send: the task description when there is
\* one, else the code when there is some, else the empty string
ExpectedQuery ==
    IF app.user_task.str # <<>> THEN app.user_task.str
    ELSE IF ~app.code_input.none /\ app.code_input.str # <<>>
         THEN app.code_input.str
    ELSE <<>>

\* the first words of the template of each task type, and where its field is
TemplateHead ==
    [t \in TaskTypes |->
        IF t = "Code Generation"
        THEN <<"You are an expert Python tutor. [...] task: ">>
        ELSE IF t = "Code Correction (Hints)"
             THEN <<"A student submitted this Python code:", "\n", "\n">>
        ELSE <<"Given this Python code for a data science/ML task:", "\n", "\n">>]

\* the prompt is the template of the task type, filled with the input of that
\* task type and ending in the retrieved context
PromptOfRequest ==
    LET head == TemplateHead[app.task_type]
        field == IF app.task_type = "Code Generation" THEN app.user_task.str
                 ELSE app.code_input.str
        tail == <<"Context:", "\n">> \o returned.context
    IN  /\ SubSeq(prompt, 1, Len(head)) = head
        /\ SubSeq(prompt, Len(head) + 1, Len(head) + Len(field)) = field
        /\ Len(prompt) > Len(head) + Len(field) + Len(tail)
        /\ SubSeq(prompt, Len(prompt) - Len(tail) + 1, Len(prompt)) = tail

\* the lines under "Sources" name the retrieved chunks, in retrieval order
SourcesOfRequest ==
    /\ Len(app.page.sources) = Len(results.metadatas[1])
    /\ \A n \in 1..Len(app.page.sources) :
          app.page.sources[n] =
              <<"[">> \o Numeral(n) \o <<"]", " ">>
              \o results.metadatas[1][n].source
              \o <<" ", "(">> \o results.metadatas[1][n].type \o <<")">>

\* C30: a request runs retrieval once, with the task description as the query
\* text when there is one, else the code, else the empty string, never None;
\* only when retrieval has returned is the prompt built, from the template of
\* the selected task type and the retrieved context, and inference called,
\* once.  When retrieval raises, inference is not called and nothing is
\* shown but the exception.  When inference fails, its error string is shown
\* as the answer, with the retrieved context and the sources.
C30_RequestFlow ==
    /\ app.retrievals <= 1
    /\ app.inferences <= 1
    /\ pc = "app_form" => (app.retrievals = 0 /\ app.inferences = 0)
    /\ pc # "app_form" =>
          /\ app.retrievals = 1
          /\ ~app.query_text.none
          /\ app.query_text.str = ExpectedQuery
          /\ request.query = ExpectedQuery
          /\ request.top_k = app.top_k
    /\ pc \in {"query", "assemble", "answered", "raised", "app_error"} =>
          /\ app.inferences = 0
          /\ prompt = <<>>
          /\ server = NoServer
          /\ answer = NoAnswer
    /\ pc = "app_error" =>
          /\ returned.raised
          /\ app.page.answer = <<>>
          /\ app.page.context = <<>>
          /\ app.page.traceback # <<>>
    /\ pc \in {"infer_create", "infer_response", "infer_except", "inferred",
               "app_shown"} =>
          /\ app.inferences = 1
          /\ ~returned.raised
          /\ returned.context =
                JoinNewline(ContextChunks(results.documents[1], results.metadatas[1]))
          /\ PromptOfRequest
    /\ pc = "app_shown" =>
          /\ app.page.context = returned.context
          /\ SourcesOfRequest
          /\ server.error # <<>> =>
                app.page.answer = <<"Error parsing response: ">> \o server.error
          /\ server.error = <<>> =>
                app.page.answer = server.choices[1].message.content

\* a second request, for hints on code with no task description: retrieval
\* returned two chunks, the inference call raised, and the page shows the
\* error string with the context and both sources
C30_Witness ==
    /\ pc = "app_shown"
    /\ app.request_n = 2
    /\ app.task_type = "Code Correction (Hints)"
    /\ app.user_task = Str(<<>>)
    /\ request.query = <<"def", " ", "f">>
    /\ app.retrievals = 1
    /\ app.inferences = 1
    /\ server.outcome = "raised"
    /\ app.page.answer = <<"Error parsing response: ", "Connection refused">>
    /\ app.page.context # <<>>
    /\ Len(app.page.sources) = 2

\* retrieval raised in a request: the handler ended before the prompt
C30_RetrievalRaisedReached ==
    /\ pc = "app_error"
    /\ app.retrievals = 1
    /\ app.inferences = 0

====
